---- MODULE Spec2Model ----
(***************************************************************************)
(* The Polar RCX5 DataLink driver (polar_rcx5_datalink/datalink.py) as a   *)
(* state machine.  One step is one USB transfer of the driver (a write of  *)
(* a command frame, or a read together with the Python code that consumes  *)
(* its result up to the next transfer).  The run modelled is                *)
(*     with DataLink() as dl: dl.synchronize(); dl.sessions               *)
(* The dongle and the watch are the environment: a read may time out       *)
(* (errno 110), return a short buffer, fail with another errno, return an  *)
(* unsolicited frame (a discovery broadcast or a frame of another type),   *)
(* or return the answer to the oldest command that the device has not      *)
(* answered yet.  USB writes are taken to succeed.                         *)
(***************************************************************************)
EXTENDS Integers, Sequences, FiniteSets, TLC

\* ------------------------------------------------------------ constants
\* DataLink class attributes
_FIND_ATTEMPTS == 20
_PAIR_WRITE_ATTEMPTS == 10
_PAIR_READ_ATTEMPTS == 5
_GET_SESSIONS_COUNT_ATTEMPTS == 20
_GET_SESSION_SIZE_ATTEMPTS == 15
_GET_SESSION_ATTEMPTS == 20
_READ_DATA_LENGTH == 512
_SESSION_PACKET_WITHOUT_HEADER == 446
_ERROR_TIMEOUT_CODE == 110

\* The largest size a size response can carry: (data[8] << 8) + data[7]
MaxSessionSize == 65535

\* ------------------------------------------------------------ bounds
\* _read_session alone is run for the sizes 0..MaxSize and for the MaxTop + 1
\* largest sizes.
MaxSize == 1400
MaxTop == 2
\* The two's-complement conversions are run for the widths 1..MaxWidth.
MaxWidth == 8
\* The most ticks after the first sample in the bitstream of a session
\* without GPS, and of one with GPS.
MaxHrTicks == 4
MaxGpsTicks == 3
\* The most calls of parse_samples on one TrainingSession object.
MaxRuns == 2
\* Largest byte[7] of a pairing response (1 is the acknowledgement).
MaxByte == 1
\* Largest session count (inbound byte[13] of a count response).
MaxCount == 2
\* Largest high byte of a session size (inbound byte[8] of a size response).
MaxHi == 2
\* Commands the device keeps unanswered; an older one is lost beyond it.
MaxPending == 2

Byte == 0..MaxByte
\* byte[5], byte[6], byte[7] of a discovery broadcast (the watch's id)
DiscB5 == {2}
DiscB6 == {3}
DiscB7 == {0, 1}
\* byte[7] of a frame of another response type
NoiseB7 == {1}
\* <<byte[7], byte[8]>> of a size response: an empty session, a session of one
\* packet, a session of several packets
SizeBytes == {<<0, 0>>, <<1, 0>>, <<0, MaxHi>>}

\* hw_id is None
NoHw == <<>>
\* session_count is None
NoCount == -1

\* ------------------------------------------------------------ utils.py
\* A Python string of binary digits is a sequence over {0, 1}.
Bit == {0, 1}

Max(a, b) == IF a >= b THEN a ELSE b
Min(a, b) == IF a <= b THEN a ELSE b

RECURSIVE Pow2(_)
Pow2(n) == IF n = 0 THEN 1 ELSE 2 * Pow2(n - 1)

\* s[a:b] for 0 <= a, 0 <= b (0-based, b exclusive, both clipped to the string)
Slice(s, a, b) == SubSeq(s, Min(a, Len(s)) + 1, Min(b, Len(s)))

\* '0' * n
Zeroes(n) == [i \in 1..n |-> 0]

\* format(val, 'b') for val >= 0
RECURSIVE format_b(_)
format_b(val) ==
    IF val < 2 THEN <<val>> ELSE Append(format_b(val \div 2), (val % 2))

\* The number whose binary digits are the first n digits of s
RECURSIVE int2_of(_, _)
int2_of(s, n) == IF n = 0 THEN 0 ELSE 2 * int2_of(s, n - 1) + s[n]

\* int(s, 2) for a non-empty string of binary digits (int('', 2) raises
\* ValueError: the callers test for the empty string)
int2(s) == int2_of(s, Len(s))

\* format(val, 'b').zfill(length)
get_bin(val, length) ==
    LET b == format_b(val)
    IN  Zeroes(Max(length - Len(b), 0)) \o b

\* int(get_bin(val)[start:end], 2), get_bin's default length being 16
get_bin_slice(val, start, end) == int2(Slice(get_bin(val, 16), start, end))

\* a ^ b for a >= 0, b >= 0
RECURSIVE Xor(_, _)
Xor(a, b) ==
    IF a = 0 THEN b
    ELSE IF b = 0 THEN a
    ELSE 2 * Xor(a \div 2, b \div 2) + (((a % 2) + (b % 2)) % 2)

\* abs(val)
Abs(val) == IF val < 0 THEN -val ELSE val

\* '1' * n
Ones(n) == [i \in 1..n |-> 1]

\* int_to_twos_complement(val, length)
int_to_twos_complement(val, length) ==
    IF val >= 0 THEN get_bin(val, length)
    ELSE LET invertor == int2(Ones(length))
         IN  format_b(Xor(Abs(val), invertor) + 1)

\* twos_complement_to_int without the "add one"
ones_complement_to_int(val, length) ==
    LET invertor == int2(Ones(length))
    IN  -Xor(int2(val), invertor)

\* twos_complement_to_int(val, length), val a non-empty string
twos_complement_to_int(val, length) ==
    LET invertor == int2(Ones(length))
    IN  -(Xor(int2(val), invertor) + 1)

\* get_bin_slice(val, end=8)
most_significant_byte(val) == get_bin_slice(val, 0, 8)

\* get_bin_slice(val, start=-8)
least_significant_byte(val) ==
    LET b == get_bin(val, 16) IN get_bin_slice(val, Len(b) - 8, Len(b))

\* ------------------------------------------------------------ frames
\* The result of one self.dev.read: kind "frame" is a 512-byte buffer, of
\* which the model keeps the response-type triplet (head) and the bytes the
\* driver indexes; kind "short" is a buffer of fewer than 512 bytes; kind
\* "error" is a usb.core.USBError with its errno.  re names the command the
\* frame answers: its op ("none": unsolicited) and whether that command is the
\* latest one written.
NoTag == [op |-> "none", fresh |-> FALSE]

Outcome(kind, errno, head, b5, b6, b7, b8, b13, re) ==
    [kind |-> kind, errno |-> errno, head |-> head, b5 |-> b5, b6 |-> b6,
     b7 |-> b7, b8 |-> b8, b13 |-> b13, re |-> re]

\* no read performed yet
Idle == Outcome("idle", 0, "none", 0, 0, 0, 0, 0, NoTag)
\* a buffer of fewer than 512 bytes (array.array('B') among them)
Short == Outcome("short", 0, "none", 0, 0, 0, 0, 0, NoTag)
\* usb.core.USBError with errno e
UsbError(e) == Outcome("error", e, "none", 0, 0, 0, 0, 0, NoTag)
\* the read timed out
Timeout == UsbError(_ERROR_TIMEOUT_CODE)
\* the errno values of the errors a read raises
Errnos == {_ERROR_TIMEOUT_CODE, 5}

\* 04 42 20 .. : the watch announcing itself, id at bytes 5..7
DiscFrames ==
    {Outcome("frame", 0, "disc", b5, b6, b7, 0, 0, NoTag) :
        b5 \in DiscB5, b6 \in DiscB6, b7 \in DiscB7}

\* A 512-byte frame of another response type that answers no command
NoiseFrames ==
    {Outcome("frame", 0, "other", 0, 0, b7, 0, 0, NoTag) : b7 \in NoiseB7}

\* The frames that answer a command of kind op; fresh tells whether it is the
\* latest command written.
Responses(op, fresh) ==
    LET re == [op |-> op, fresh |-> fresh]
    IN  CASE op = "pair" ->
               {Outcome("frame", 0, "pair", 0, 0, b7, 0, 0, re) : b7 \in Byte}
          [] op = "count" ->
               {Outcome("frame", 0, "count", 0, 0, 0, 0, b13, re) :
                   b13 \in 0..MaxCount}
          [] op = "size" ->
               {Outcome("frame", 0, "size", 0, 0, b[1], b[2], 0, re) :
                   b \in SizeBytes}
          [] OTHER ->
               {Outcome("frame", 0, "data", 0, 0, 0, 0, 0, re)}

\* What self.dev.read can give while the device holds the commands pend (the
\* kinds of the commands written and not answered, oldest first).
ReadOutcomes(pend) ==
    {UsbError(e) : e \in Errnos} \cup {Short} \cup DiscFrames \cup NoiseFrames
        \cup (IF pend = <<>> THEN {}
              ELSE Responses(Head(pend), Len(pend) = 1))

\* The device's queue after the read gave outcome o.
AfterRead(pend, o) ==
    IF o.re.op = "none" THEN pend ELSE Tail(pend)

\* The device's queue after a command of kind op was written to it.
AfterWrite(pend, op) ==
    IF Len(pend) < MaxPending THEN Append(pend, op)
    ELSE Append(Tail(pend), op)

\* What _read gives its caller for the outcome o of self.dev.read: a timeout
\* becomes an empty buffer, another error is raised (kind "error").
_read(o) ==
    IF o.kind = "error" /\ o.errno = _ERROR_TIMEOUT_CODE THEN Short ELSE o

\* _is_ready with any buffer taken as ready
_is_ready_nonempty(o) == o.kind \in {"frame", "short"}

\* len(data) == 512
_is_ready(o) == o.kind = "frame"

\* starts_with with the triplet not compared
starts_with_any(o, head) == TRUE

\* starts_with(data, triplet), the triplet named by its head
starts_with(o, head) == o.head = head

\* ------------------------------------------------------------ commands
\* An outbound frame: its opcode (byte 2) as op, bytes 5..7 as hw, and the
\* operands that follow B2/B3 00.
Cmd(op, hw, n, off_lo, off_hi, len_lo, len_hi) ==
    [op |-> op, hw |-> hw, n |-> n, off_lo |-> off_lo, off_hi |-> off_hi,
     len_lo |-> len_lo, len_hi |-> len_hi]

NoCmd == Cmd("none", NoHw, 0, 0, 0, 0, 0)

\* 01 07, then 01 40 01 00 51
EnableCmd == Cmd("enable", NoHw, 0, 0, 0, 0, 0)

\* 01 40 06 00 54 <hw_id> B6 00 08 08 08 08
PairCmd(hw) == Cmd("pair", hw, 0, 0, 0, 0, 0)

\* 01 40 02 00 54 <hw_id>
CountCmd(hw) == Cmd("count", hw, 0, 0, 0, 0, 0)

\* 01 40 03 00 54 <hw_id> B2 00 n
SizeCmd(hw, n) == Cmd("size", hw, n, 0, 0, 0, 0)

\* 01 40 04 00 54 <hw_id> B7 00 00 01
DisconnectCmd(hw) == Cmd("disconnect", hw, 0, 0, 0, 0, 0)

\* 01 40 09 00 54 <hw_id> B3 00 n off_lo off_hi 00 00 len_lo len_hi
_assemble_packet_request_data(hw, session_number, bytes_received, bytes_to_read) ==
    Cmd("fetch", hw, session_number,
        least_significant_byte(bytes_received),
        most_significant_byte(bytes_received),
        least_significant_byte(bytes_to_read),
        most_significant_byte(bytes_to_read))

\* PacketsCount with one packet at least
PacketsCountOneAtLeast(size) ==
    IF size = 0 THEN 1
    ELSE (size + _SESSION_PACKET_WITHOUT_HEADER - 1)
            \div _SESSION_PACKET_WITHOUT_HEADER

\* math.ceil(size / packet_size)
PacketsCount(size) ==
    (size + _SESSION_PACKET_WITHOUT_HEADER - 1) \div _SESSION_PACKET_WITHOUT_HEADER

\* BytesToRead with every packet requested whole
BytesToReadWhole(size, packet) == _SESSION_PACKET_WITHOUT_HEADER

\* tail_size if is_last and tail_size else packet_size
BytesToRead(size, packet) ==
    LET tail_size == size % _SESSION_PACKET_WITHOUT_HEADER
        is_last == packet + 1 = PacketsCount(size)
    IN  IF is_last /\ tail_size # 0 THEN tail_size
        ELSE _SESSION_PACKET_WITHOUT_HEADER

\* HwIdOf without the reversal
HwIdOfWireOrder(o) == <<o.b5, o.b6, o.b7>>

\* tuple(reversed(data[5:8]))
HwIdOf(o) == <<o.b7, o.b6, o.b5>>

\* data[13]
CountOf(o) == o.b13

\* (data[8] << 8) + data[7]
SizeOf(o) == o.b8 * 256 + o.b7

\* data and data[7] == 0x01
PairAck(o) == o.b7 = 1

\* ------------------------------------------------------------ state
VARIABLES
    pc,             \* the driver's position: the transfer it performs next
    attempt,        \* the loop variable of the operation's (outer) for loop
    rattempt,       \* the loop variable of _pair's inner read loop
    hw_id,          \* self.hw_id
    session_count,  \* sessions: session_count
    session_sizes,  \* sessions: session_sizes
    num,            \* sessions: num, the session being sized or read
    packet,         \* _read_session: packet (= len(session))
    sessions,       \* sessions: the list returned, each entry a read session
    raised,         \* the exception that left synchronize / sessions
    failed,         \* the sessions report_warning was called for
    pending,        \* device: kinds of the commands written and not answered
    lastRead,       \* the outcome of the latest self.dev.read
    lastWrite,      \* the latest frame handed to self.dev.write
    opWrites,       \* writes of the request of the operation in progress
    opReads,        \* reads since the latest request of another operation
    countAllEmpty,  \* every read of _count_sessions so far was not ready
    paired,         \* _pair returned True
    wroteData,      \* a count, size or fetch-chunk command was written
    requested       \* the sessions a fetch-chunk command was written for

vars == <<pc, attempt, rattempt, hw_id, session_count, session_sizes, num,
          packet, sessions, raised, failed, pending, lastRead, lastWrite,
          opWrites, opReads, countAllEmpty, paired, wroteData, requested>>

\* The state of the specifications of the functions checked apart from the
\* driver's run; the driver leaves it alone.
VARIABLES
    rs_pc,          \* _read_session: "loop", "done" (returned a list), "failed"
    rs_size,        \* _read_session: size
    rs_packet,      \* _read_session: packet, the for loop's variable
    rs_session,     \* _read_session: len(session)
    rs_cmd,         \* _read_session: send_data of the latest request
    rs_writes,      \* the fetch-chunk requests written
    rs_sum          \* the sum of their bytes_to_read

rsvars == <<rs_pc, rs_size, rs_packet, rs_session, rs_cmd, rs_writes, rs_sum>>

VARIABLES
    tc_pc,          \* the conversion to do next: "encode", "decode", "done"
    tc_val,         \* int_to_twos_complement: val
    tc_len,         \* length, of both conversions
    tc_bits,        \* the string int_to_twos_complement returned
    tc_int          \* the integer twos_complement_to_int returned

tcvars == <<tc_pc, tc_val, tc_len, tc_bits, tc_int>>

VARIABLES
    ts              \* the TrainingSession objects, by their number

\* The TrainingSession objects of a run are numbered
Inst == 1..3

\* Every variable the driver's run leaves alone.
others == <<rsvars, tcvars, ts>>

NoExc == [exc |-> "none", at |-> "none"]
Exc(exc, at) == [exc |-> exc, at |-> at]

\* One entry of the returned list: the session's number and its packets.
Session(n, npk) == [num |-> n, npk |-> npk]

\* The for loop over session_sizes from session k on: a session of size 0 has
\* packets_count 0, so _read_session returns [] without any transfer and the
\* empty session is appended; the loop stops at the next session that needs a
\* transfer, or returns the list.
RECURSIVE NextSession(_, _, _)
NextSession(k, sizes, sess) ==
    IF k = Len(sizes)
    THEN [pc |-> "exit", num |-> k, sessions |-> sess]
    ELSE IF PacketsCount(sizes[k + 1]) = 0
         THEN NextSession(k + 1, sizes, Append(sess, Session(k, 0)))
         ELSE [pc |-> "fetch_write", num |-> k, sessions |-> sess]

DriverInit ==
    /\ pc = "connect"
    /\ attempt = 0
    /\ rattempt = 0
    /\ hw_id = NoHw
    /\ session_count = NoCount
    /\ session_sizes = <<>>
    /\ num = 0
    /\ packet = 0
    /\ sessions = <<>>
    /\ raised = NoExc
    /\ failed = {}
    /\ pending = <<>>
    /\ lastRead = Idle
    /\ lastWrite = NoCmd
    /\ opWrites = 0
    /\ opReads = 0
    /\ countAllEmpty = TRUE
    /\ paired = FALSE
    /\ wroteData = FALSE
    /\ requested = {}

\* _read_session not called
RsOff ==
    /\ rs_pc = "off"
    /\ rs_size = 0
    /\ rs_packet = 0
    /\ rs_session = 0
    /\ rs_cmd = NoCmd
    /\ rs_writes = 0
    /\ rs_sum = 0

\* no conversion called
TcOff ==
    /\ tc_pc = "off"
    /\ tc_val = 0
    /\ tc_len = 0
    /\ tc_bits = <<>>
    /\ tc_int = 0

\* no TrainingSession constructed
TsOff == ts = [i \in Inst |-> [pc |-> "off"]]

Init ==
    /\ DriverInit
    /\ RsOff
    /\ TcOff
    /\ TsOff

\* An exception propagates out of synchronize / sessions to __exit__.
Raise(exc, at) ==
    /\ raised' = Exc(exc, at)
    /\ pc' = "exit"

\* _read: self.dev.read gives outcome o, consumed from the device; lastRead is
\* what _read returns (or raises).
DevRead(o) ==
    /\ o \in ReadOutcomes(pending)
    /\ lastRead' = _read(o)
    /\ pending' = AfterRead(pending, o)
    /\ opReads' = opReads + 1
    /\ countAllEmpty' = IF pc = "count_read"
                        THEN countAllEmpty /\ ~_is_ready(_read(o))
                        ELSE countAllEmpty
    /\ UNCHANGED <<lastWrite, opWrites, wroteData, requested>>

\* self._write(cmd), the device queueing a command of kind tag
DevWrite(cmd, tag) ==
    /\ lastWrite' = cmd
    /\ pending' = AfterWrite(pending, tag)
    /\ lastRead' = Idle

\* synchronize: _connect (usb.core.find, then the two enable frames)
Connect ==
    /\ pc = "connect"
    /\ UNCHANGED others
    /\ \E found \in BOOLEAN :
         IF found
         THEN /\ lastWrite' = EnableCmd
              /\ pc' = "find"
              /\ UNCHANGED raised
         ELSE /\ Raise("SyncError", "connect")
              /\ UNCHANGED lastWrite
    /\ attempt' = 0
    /\ UNCHANGED <<rattempt, hw_id, session_count, session_sizes, num, packet,
                   sessions, failed, pending, lastRead, opWrites, opReads,
                   countAllEmpty, paired, wroteData, requested>>

\* _find_watch: one iteration of the read loop, and synchronize's check
FindRead ==
    /\ pc = "find"
    /\ UNCHANGED others
    /\ \E r \in ReadOutcomes(pending) :
         LET o == _read(r) IN
         /\ DevRead(r)
         /\ IF o.kind = "error"
            THEN /\ Raise("USBError", "find")
                 /\ UNCHANGED <<hw_id, attempt>>
            ELSE IF _is_ready(o) /\ starts_with(o, "disc")
            THEN /\ hw_id' = HwIdOf(o)
                 /\ pc' = "pair_write"
                 /\ attempt' = 0
                 /\ UNCHANGED raised
            ELSE /\ attempt' = attempt + 1
                 /\ IF attempt + 1 = _FIND_ATTEMPTS
                    THEN Raise("SyncError", "find")
                    ELSE UNCHANGED <<pc, raised>>
                 /\ UNCHANGED hw_id
    /\ UNCHANGED <<rattempt, session_count, session_sizes, num, packet,
                   sessions, failed, paired>>

\* _pair: the write of one pairing request
PairWrite ==
    /\ pc = "pair_write"
    /\ UNCHANGED others
    /\ DevWrite(PairCmd(hw_id), "pair")
    /\ pc' = "pair_read"
    /\ rattempt' = 0
    /\ opWrites' = opWrites + 1
    /\ opReads' = 0
    /\ UNCHANGED countAllEmpty
    /\ UNCHANGED <<attempt, hw_id, session_count, session_sizes, num, packet,
                   sessions, raised, failed, paired, wroteData, requested>>

\* PairRetry with synchronize not checking what _pair returned
PairRetryUnchecked ==
    /\ attempt' = attempt + 1
    /\ IF attempt + 1 = _PAIR_WRITE_ATTEMPTS
       THEN /\ pc' = "count_write"
            /\ UNCHANGED raised
       ELSE /\ pc' = "pair_write"
            /\ UNCHANGED raised
    /\ UNCHANGED <<rattempt, paired>>

\* PairRetry with the outer loop bounded by the inner loop's budget
PairRetryReadBudget ==
    /\ attempt' = attempt + 1
    /\ IF attempt + 1 = _PAIR_READ_ATTEMPTS
       THEN Raise("SyncError", "pair")
       ELSE /\ pc' = "pair_write"
            /\ UNCHANGED raised
    /\ UNCHANGED <<rattempt, paired>>

\* _pair: the end of one outer iteration without success (time.sleep(3))
PairRetry ==
    /\ attempt' = attempt + 1
    /\ IF attempt + 1 = _PAIR_WRITE_ATTEMPTS
       THEN Raise("SyncError", "pair")
       ELSE /\ pc' = "pair_write"
            /\ UNCHANGED raised
    /\ UNCHANGED <<rattempt, paired>>

\* _pair: one read of the inner loop, and synchronize's check
PairRead ==
    /\ pc = "pair_read"
    /\ UNCHANGED others
    /\ \E r \in ReadOutcomes(pending) :
         LET o == _read(r) IN
         /\ DevRead(r)
         /\ IF o.kind = "error"
            THEN /\ Raise("USBError", "pair")
                 /\ UNCHANGED <<attempt, rattempt, paired>>
            ELSE IF _is_ready(o)
            THEN IF PairAck(o)
                 THEN /\ paired' = TRUE
                      /\ pc' = "count_write"
                      /\ UNCHANGED <<attempt, rattempt, raised>>
                 ELSE PairRetry
            ELSE IF rattempt + 1 < _PAIR_READ_ATTEMPTS
            THEN /\ rattempt' = rattempt + 1
                 /\ UNCHANGED <<pc, attempt, raised, paired>>
            ELSE PairRetry
    /\ UNCHANGED <<hw_id, session_count, session_sizes, num, packet, sessions,
                   failed>>

\* sessions: _count_sessions writes the count request
CountWrite ==
    /\ pc = "count_write"
    /\ UNCHANGED others
    /\ DevWrite(CountCmd(hw_id), "count")
    /\ pc' = "count_read"
    /\ attempt' = 0
    /\ opWrites' = 1
    /\ opReads' = 0
    /\ countAllEmpty' = TRUE
    /\ wroteData' = TRUE
    /\ UNCHANGED <<rattempt, hw_id, session_count, session_sizes, num, packet,
                   sessions, raised, failed, paired, requested>>

\* CountNext with the read budget of _read_session_size
CountNextSizeBudget ==
    /\ attempt' = attempt + 1
    /\ IF attempt + 1 = _GET_SESSION_SIZE_ATTEMPTS
       THEN Raise("SyncError", "count")
       ELSE /\ pc' = "count_read"
            /\ UNCHANGED raised

\* _count_sessions: the end of one iteration that returned no count, and
\* sessions' check of the None returned after the last one
CountNext ==
    /\ attempt' = attempt + 1
    /\ IF attempt + 1 = _GET_SESSIONS_COUNT_ATTEMPTS
       THEN Raise("SyncError", "count")
       ELSE /\ pc' = "count_read"
            /\ UNCHANGED raised

\* _count_sessions: the read of _read_retry, and sessions' checks of the count
CountRead ==
    /\ pc = "count_read"
    /\ UNCHANGED others
    /\ \E r \in ReadOutcomes(pending) :
         LET o == _read(r) IN
         /\ DevRead(r)
         /\ IF o.kind = "error"
            THEN /\ Raise("USBError", "count")
                 /\ UNCHANGED <<attempt, session_count>>
            ELSE IF _is_ready(o)
            THEN IF starts_with(o, "count")
                 THEN /\ session_count' = CountOf(o)
                      /\ IF CountOf(o) = 0
                         THEN Raise("SyncError", "nosessions")
                         ELSE /\ pc' = "size_write"
                              /\ UNCHANGED raised
                      /\ UNCHANGED attempt
                 ELSE /\ pc' = "count_resend"
                      /\ UNCHANGED <<attempt, session_count, raised>>
            ELSE /\ CountNext
                 /\ UNCHANGED session_count
    /\ num' = 0
    /\ UNCHANGED <<rattempt, hw_id, session_sizes, packet, sessions, failed,
                   paired>>

\* _read_retry inside _count_sessions: time.sleep(2), then the re-send
CountResend ==
    /\ pc = "count_resend"
    /\ UNCHANGED others
    /\ DevWrite(CountCmd(hw_id), "count")
    /\ opWrites' = opWrites + 1
    /\ CountNext
    /\ UNCHANGED <<rattempt, hw_id, session_count, session_sizes, num, packet,
                   sessions, failed, opReads, countAllEmpty, paired, wroteData,
                   requested>>

\* sessions: _read_session_size(num) writes the size request
SizeWrite ==
    /\ pc = "size_write"
    /\ UNCHANGED others
    /\ DevWrite(SizeCmd(hw_id, num), "size")
    /\ pc' = "size_read"
    /\ attempt' = 0
    /\ opWrites' = 1
    /\ opReads' = 0
    /\ UNCHANGED countAllEmpty
    /\ UNCHANGED <<rattempt, hw_id, session_count, session_sizes, num, packet,
                   sessions, raised, failed, paired, wroteData, requested>>

\* SizeNext with the failure reported as a warning and the loop left
SizeNextWarn ==
    /\ attempt' = attempt + 1
    /\ IF attempt + 1 = _GET_SESSION_SIZE_ATTEMPTS
       THEN /\ pc' = "exit"
            /\ UNCHANGED raised
       ELSE /\ pc' = "size_read"
            /\ UNCHANGED raised

\* _read_session_size: the end of one iteration that returned no size, and
\* sessions' check of the None returned after the last one
SizeNext ==
    /\ attempt' = attempt + 1
    /\ IF attempt + 1 = _GET_SESSION_SIZE_ATTEMPTS
       THEN Raise("SyncError", "size")
       ELSE /\ pc' = "size_read"
            /\ UNCHANGED raised

\* AfterSize with each session read as soon as its size is known
AfterSizeEager(k, count, sizes) == NextSession(0, sizes, <<>>)

\* The position after session k's size was appended to session_sizes: the
\* next size request, or the start of the loop over session_sizes.
AfterSize(k, count, sizes) ==
    IF k + 1 < count
    THEN [pc |-> "size_write", num |-> k + 1, sessions |-> <<>>]
    ELSE NextSession(0, sizes, <<>>)

\* _read_session_size: the read of _read_retry, and sessions' use of the size
SizeRead ==
    /\ pc = "size_read"
    /\ UNCHANGED others
    /\ \E r \in ReadOutcomes(pending) :
         LET o == _read(r) IN
         /\ DevRead(r)
         /\ IF o.kind = "error"
            THEN /\ Raise("USBError", "size")
                 /\ UNCHANGED <<attempt, session_sizes, num, sessions>>
            ELSE IF _is_ready(o)
            THEN IF starts_with(o, "size")
                 THEN LET sizes == Append(session_sizes, SizeOf(o))
                          nxt == AfterSize(num, session_count, sizes)
                      IN  /\ session_sizes' = sizes
                          /\ pc' = nxt.pc
                          /\ num' = nxt.num
                          /\ sessions' = nxt.sessions
                          /\ UNCHANGED <<attempt, raised>>
                 ELSE /\ pc' = "size_resend"
                      /\ UNCHANGED <<attempt, session_sizes, num, sessions,
                                     raised>>
            ELSE /\ SizeNext
                 /\ UNCHANGED <<session_sizes, num, sessions>>
    /\ packet' = 0
    /\ UNCHANGED <<rattempt, hw_id, session_count, failed, paired>>

\* _read_retry inside _read_session_size: time.sleep(2), then the re-send
SizeResend ==
    /\ pc = "size_resend"
    /\ UNCHANGED others
    /\ DevWrite(SizeCmd(hw_id, num), "size")
    /\ opWrites' = opWrites + 1
    /\ SizeNext
    /\ UNCHANGED <<rattempt, hw_id, session_count, session_sizes, num, packet,
                   sessions, failed, opReads, countAllEmpty, paired, wroteData,
                   requested>>

\* AfterFailure with break in place of continue
AfterFailureBreak(k, sizes, sess) ==
    [pc |-> "exit", num |-> k, sessions |-> sess]

\* sessions: _read_session returned None for session k; after the warning the
\* loop continues with session k + 1, the list unchanged.
AfterFailure(k, sizes, sess) == NextSession(k + 1, sizes, sess)

\* _read_session: the fetch-chunk request of packet `packet` of session num
FetchWrite ==
    /\ pc = "fetch_write"
    /\ UNCHANGED others
    /\ LET size == session_sizes[num + 1]
           bytes_received == packet * _SESSION_PACKET_WITHOUT_HEADER
           bytes_to_read == BytesToRead(size, packet)
       IN  DevWrite(_assemble_packet_request_data(hw_id, num, bytes_received,
                                                  bytes_to_read),
                    "fetch")
    /\ pc' = "fetch_read"
    /\ attempt' = 0
    /\ opWrites' = 1
    /\ opReads' = 0
    /\ UNCHANGED countAllEmpty
    /\ requested' = requested \cup {num}
    /\ UNCHANGED <<rattempt, hw_id, session_count, session_sizes, num, packet,
                   sessions, raised, failed, paired, wroteData>>

\* _read_session: one read of the packet's loop; the for/else returns None
\* after the last one, and sessions reports the warning and goes on
FetchRead ==
    /\ pc = "fetch_read"
    /\ UNCHANGED others
    /\ \E r \in ReadOutcomes(pending) :
         LET o == _read(r) IN
         /\ DevRead(r)
         /\ IF o.kind = "error"
            THEN /\ Raise("USBError", "fetch")
                 /\ UNCHANGED <<attempt, num, packet, sessions, failed>>
            ELSE IF _is_ready(o)
            THEN IF packet + 1 = PacketsCount(session_sizes[num + 1])
                 THEN LET nxt == NextSession(num + 1, session_sizes,
                                     Append(sessions, Session(num, packet + 1)))
                      IN  /\ pc' = nxt.pc
                          /\ num' = nxt.num
                          /\ sessions' = nxt.sessions
                          /\ packet' = 0
                          /\ UNCHANGED <<attempt, raised, failed>>
                 ELSE /\ packet' = packet + 1
                      /\ pc' = "fetch_write"
                      /\ UNCHANGED <<attempt, num, sessions, raised, failed>>
            ELSE IF attempt + 1 < _GET_SESSION_ATTEMPTS
            THEN /\ attempt' = attempt + 1
                 /\ UNCHANGED <<pc, num, packet, sessions, raised, failed>>
            ELSE LET nxt == AfterFailure(num, session_sizes, sessions)
                 IN  /\ failed' = failed \cup {num}
                     /\ pc' = nxt.pc
                     /\ num' = nxt.num
                     /\ sessions' = nxt.sessions
                     /\ packet' = 0
                     /\ attempt' = attempt + 1
                     /\ UNCHANGED raised
    /\ UNCHANGED <<rattempt, hw_id, session_count, session_sizes, paired>>

\* Exit with the disconnect sent only when no exception is propagating
ExitOnSuccessOnly ==
    /\ pc = "exit"
    /\ UNCHANGED others
    /\ pc' = "closed"
    /\ IF hw_id # NoHw /\ raised = NoExc
       THEN /\ lastWrite' = DisconnectCmd(hw_id)
            /\ lastRead' = Idle
       ELSE UNCHANGED <<lastWrite, lastRead>>
    /\ UNCHANGED <<attempt, rattempt, hw_id, session_count, session_sizes, num,
                   packet, sessions, raised, failed, pending, opWrites, opReads,
                   countAllEmpty, paired, wroteData, requested>>

\* __exit__: _disconnect when a hardware id is known
Exit ==
    /\ pc = "exit"
    /\ UNCHANGED others
    /\ pc' = "closed"
    /\ IF hw_id # NoHw
       THEN /\ lastWrite' = DisconnectCmd(hw_id)
            /\ lastRead' = Idle
       ELSE UNCHANGED <<lastWrite, lastRead>>
    /\ UNCHANGED <<attempt, rattempt, hw_id, session_count, session_sizes, num,
                   packet, sessions, raised, failed, pending, opWrites, opReads,
                   countAllEmpty, paired, wroteData, requested>>

\* The device loses the oldest command it holds (it will never answer it).
DeviceLose ==
    /\ pc \notin {"exit", "closed"}
    /\ UNCHANGED others
    /\ pending # <<>>
    /\ pending' = Tail(pending)
    /\ UNCHANGED <<pc, attempt, rattempt, hw_id, session_count, session_sizes,
                   num, packet, sessions, raised, failed, lastRead, lastWrite,
                   opWrites, opReads, countAllEmpty, paired, wroteData, requested>>

Next ==
    \/ Connect
    \/ FindRead
    \/ PairWrite
    \/ PairRead
    \/ CountWrite
    \/ CountRead
    \/ CountResend
    \/ SizeWrite
    \/ SizeRead
    \/ SizeResend
    \/ FetchWrite
    \/ FetchRead
    \/ Exit
    \/ DeviceLose

Spec == Init /\ [][Next]_vars

\* ------------------------------------------------------------ properties
\* The step is a self.dev.read (every read, and only a read, counts one up).
ReadStep == opReads' = opReads + 1

\* The session numbers of a list of read sessions, in list order.
Nums(sess) == [i \in 1..Len(sess) |-> sess[i].num]

NumSet(sess) == {sess[i].num : i \in 1..Len(sess)}

\* The place of a command in the enumeration: pairing, count, sizes, bodies.
Phase(c) ==
    CASE c.op = "count" -> 1
      [] c.op = "size" -> 2
      [] c.op = "fetch" -> 3
      [] c.op = "disconnect" -> 4
      [] OTHER -> 0

\* bytes_received of a fetch-chunk command, from its two offset bytes
OffsetOf(c) == c.off_hi * 256 + c.off_lo

\* Command b may be written after command a.
InOrder(a, b) ==
    \/ Phase(a) < Phase(b)
    \/ /\ Phase(a) = Phase(b)
       /\ \/ a.n < b.n
          \/ a.n = b.n /\ OffsetOf(a) <= OffsetOf(b)

\* C1: the commands of sessions are written in the order count request(s),
\* size requests by ascending session, fetch-chunk requests by ascending
\* session; a fetch-chunk request is written only when every session's size
\* has been read, and the size request of session k+1 only when the sizes of
\* sessions 0..k have been returned.
C1_DataOrder ==
    /\ lastWrite.op = "fetch" => Len(session_sizes) = session_count
    /\ lastWrite.op = "size" =>
          /\ lastWrite.n <= Len(session_sizes)
          /\ lastWrite.n < session_count
          /\ requested = {}
    /\ lastWrite.op = "count" => session_sizes = <<>> /\ requested = {}

C1_EnumerationOrder ==
    []C1_DataOrder /\ [][InOrder(lastWrite, lastWrite')]_vars

C1_Witness ==
    /\ lastWrite.op = "fetch"
    /\ lastWrite.n = 1
    /\ Len(sessions) = 1
    /\ sessions[1].num = 0
    /\ session_count = 2

\* C2: no device command is in flight together with another: the device never
\* holds more than one command that it has not answered.
C2_NoOverlappingCommands == Len(pending) <= 1

\* The count operation ended with its read budget used up.
CountFailed == raised = Exc("SyncError", "count")

\* C3: when every read of count_sessions is not ready, the driver performs
\* exactly 20 reads and writes the count request exactly once, sessions raises
\* SyncError, and no size or fetch-chunk request is written.
C3_CountAllEmpty ==
    /\ (pc \in {"count_read", "count_resend"} /\ countAllEmpty) =>
          /\ opWrites = 1
          /\ opReads = attempt
          /\ opReads < _GET_SESSIONS_COUNT_ATTEMPTS
          /\ session_count = NoCount
          /\ pc = "count_read"
    /\ (CountFailed /\ countAllEmpty) =>
          /\ opReads = 20
          /\ opWrites = 1
          /\ session_sizes = <<>>
          /\ requested = {}
          /\ sessions = <<>>
          /\ lastWrite.op \in {"count", "disconnect"}
    /\ (pc = "closed" /\ lastWrite.op = "disconnect" /\ countAllEmpty
          /\ wroteData /\ session_count = NoCount) =>
             (raised.exc = "USBError" \/ CountFailed)

C3_Witness == CountFailed /\ countAllEmpty /\ pc = "closed"

\* The size operation of session lastWrite.n ended with its budget used up.
SizeExhausted ==
    /\ pc \in {"exit", "closed"}
    /\ Len(session_sizes) < session_count
    /\ attempt = _GET_SESSION_SIZE_ATTEMPTS
    /\ raised.exc # "USBError"

\* C4 as claimed: an exhausted size budget of session k is only a warning:
\* session k is omitted and no exception leaves sessions.
C4_SizeFailureIsWarning ==
    SizeExhausted => (raised = NoExc /\ Len(session_sizes) \in failed)

\* C4: an exhausted size budget of session k makes sessions raise SyncError:
\* no fetch-chunk request is written, no warning is reported and no session
\* is returned, whatever sizes were read before.
C4_SizeFailureAborts ==
    /\ SizeExhausted =>
          /\ raised = Exc("SyncError", "size")
          /\ requested = {}
          /\ failed = {}
          /\ sessions = <<>>
          /\ pc = "exit" => lastWrite = SizeCmd(hw_id, Len(session_sizes))
    /\ raised = Exc("SyncError", "size") => SizeExhausted

C4_Witness ==
    /\ raised = Exc("SyncError", "size")
    /\ Len(session_sizes) = 1
    /\ session_count = 2
    /\ pc = "closed"

\* The sessions whose body needs at least one packet.
NonEmpty == {k \in 0..(Len(session_sizes) - 1) :
                PacketsCount(session_sizes[k + 1]) > 0}

\* The enumeration returned its list.
Returned == pc \in {"exit", "closed"} /\ raised = NoExc /\ wroteData

C5_State ==
    /\ \A i \in 1..Len(sessions) :
          /\ sessions[i].num \in 0..(Len(session_sizes) - 1)
          /\ sessions[i].npk = PacketsCount(session_sizes[sessions[i].num + 1])
          /\ \A j \in 1..Len(sessions) :
                i < j => sessions[i].num < sessions[j].num
    /\ failed \cap NumSet(sessions) = {}
    /\ failed \subseteq NonEmpty
    /\ session_count # NoCount => Len(sessions) <= session_count
    /\ pc \in {"fetch_write", "fetch_read"} =>
          /\ NumSet(sessions) \cup failed = 0..(num - 1)
          /\ requested = {k \in NonEmpty : k < num} \cup
                            (IF pc = "fetch_read" \/ packet > 0 THEN {num} ELSE {})
    /\ Returned =>
          /\ NumSet(sessions) = (0..(session_count - 1)) \ failed
          /\ requested = NonEmpty

C5_Step ==
    failed' # failed =>
       /\ pc = "fetch_read"
       /\ ReadStep
       /\ ~_is_ready(lastRead')
       /\ opReads' = _GET_SESSION_ATTEMPTS
       /\ failed' = failed \cup {num}
       /\ raised' = NoExc
       /\ \E k \in 0..(Len(sessions') - Len(sessions)) :
             sessions = SubSeq(sessions', 1, Len(sessions))

\* C5: a body read of session k that uses up its 20 reads on some packet only
\* reports a warning: session k (with the packets read so far) is left out, the
\* sessions after it are still requested, and the list returned holds, in
\* ascending order, exactly the sessions that were read completely.
C5_BodyFailureSkipsSession == []C5_State /\ [][C5_Step]_vars

C5_Witness ==
    /\ Returned
    /\ pc = "closed"
    /\ session_count = 2
    /\ failed = {0}
    /\ Len(sessions) = 1
    /\ sessions[1] = Session(1, 2)
    /\ requested = {0, 1}

DataOps == {"count", "size", "fetch"}

C6_State ==
    /\ lastWrite.op \in DataOps => wroteData
    /\ wroteData => (hw_id # NoHw /\ paired)
    /\ raised = Exc("SyncError", "find") =>
          (opReads = _FIND_ATTEMPTS /\ hw_id = NoHw /\ ~paired /\ ~wroteData)
    /\ raised = Exc("SyncError", "pair") =>
          (opWrites = _PAIR_WRITE_ATTEMPTS /\ ~paired /\ ~wroteData)
    /\ pc = "find" => attempt < _FIND_ATTEMPTS
    /\ pc \in {"pair_write", "pair_read"} => attempt < _PAIR_WRITE_ATTEMPTS
    /\ ~paired => pending \in Seq({"pair"})

C6_Step ==
    /\ (paired' /\ ~paired) =>
          (ReadStep /\ lastRead'.kind = "frame" /\ lastRead'.b7 = 1
             /\ hw_id # NoHw)
    /\ raised.at \in {"find", "pair", "connect"} => ~wroteData'

\* C6: a count, size or fetch-chunk command is written only after a hardware
\* id was discovered and a pairing success was read; when discovery uses up its
\* 20 reads or pairing its 10 attempts, synchronize raises SyncError and no
\* such command is ever written.
C6_ReadyBeforeData == []C6_State /\ [][C6_Step]_vars

C6_Witness ==
    /\ lastWrite.op = "fetch"
    /\ paired
    /\ hw_id # NoHw
    /\ lastWrite.n = 1

\* C7 as claimed: every teardown of a Transport that opened the device ends
\* with the disconnect command as the last frame written.
C7_AlwaysDisconnects ==
    (pc = "closed" /\ lastWrite # NoCmd) => lastWrite.op = "disconnect"

C7_State ==
    /\ (pc = "closed" /\ hw_id # NoHw) => lastWrite = DisconnectCmd(hw_id)
    /\ hw_id = NoHw => lastWrite.op \in {"none", "enable"}
    /\ lastWrite.op = "disconnect" => pc = "closed"

C7_Step ==
    /\ pc = "closed" => lastWrite' = lastWrite
    /\ lastWrite.op = "disconnect" => lastWrite' = lastWrite

\* C7: a teardown after a hardware id was discovered (after success, a failed
\* pairing or any later error) writes the disconnect command with that id as
\* the last frame; a teardown without a hardware id (failed discovery) writes
\* no disconnect command.
C7_DisconnectWhenIdKnown == []C7_State /\ [][C7_Step]_vars

C7_Witness ==
    /\ pc = "closed"
    /\ raised = Exc("SyncError", "pair")
    /\ lastWrite.op = "disconnect"
    /\ lastWrite.hw = hw_id

\* The read budget of the loop that reads at position p.
Budget(p) ==
    CASE p = "find" -> _FIND_ATTEMPTS
      [] p = "count_read" -> _GET_SESSIONS_COUNT_ATTEMPTS
      [] p = "size_read" -> _GET_SESSION_SIZE_ATTEMPTS
      [] p = "fetch_read" -> _GET_SESSION_ATTEMPTS
      [] OTHER -> _PAIR_READ_ATTEMPTS

C8_NotReady ==
    (ReadStep /\ lastRead'.kind = "short") =>
       /\ UNCHANGED <<hw_id, session_count, session_sizes, paired, lastWrite,
                      opWrites, pending, wroteData, requested>>
       /\ pc' \notin {"count_resend", "size_resend"}
       /\ raised'.exc # "USBError"
       /\ pc = "fetch_read" =>
             /\ num \notin NumSet(sessions')
             /\ num' = num => (pc' = pc /\ packet' = packet)
       /\ IF pc = "pair_read"
          THEN IF rattempt + 1 < Budget(pc)
               THEN /\ pc' = pc
                    /\ rattempt' = rattempt + 1
                    /\ attempt' = attempt
                    /\ raised' = NoExc
               ELSE /\ attempt' = attempt + 1
                    /\ attempt + 1 < _PAIR_WRITE_ATTEMPTS =>
                          (pc' = "pair_write" /\ raised' = NoExc)
          ELSE /\ attempt' = attempt + 1
               /\ attempt + 1 < Budget(pc) =>
                     /\ pc' = pc
                     /\ raised' = NoExc
                     /\ UNCHANGED <<sessions, failed, num, packet>>
               /\ attempt + 1 = Budget(pc) =>
                     (raised' = NoExc <=> pc = "fetch_read")

C8_Error ==
    /\ (ReadStep /\ lastRead'.kind = "error") =>
          /\ lastRead'.errno # 110
          /\ raised'.exc = "USBError"
          /\ pc' = "exit"
          /\ UNCHANGED <<hw_id, session_count, session_sizes, sessions, paired,
                         lastWrite, failed, opWrites, wroteData, requested>>
    /\ raised.exc = "USBError" =>
          /\ opReads' = opReads
          /\ lastRead'.kind \in {"error", "idle"}
          /\ opWrites' = opWrites
          /\ raised' = raised
          /\ pending' = pending =>
                (lastWrite' = lastWrite \/
                   (pc = "exit" /\ lastWrite' = DisconnectCmd(hw_id)))
          /\ UNCHANGED <<hw_id, session_count, session_sizes, sessions, paired,
                         failed, requested>>

\* C8: a read that times out (errno 110, which _read turns into an empty
\* buffer and never raises) or returns fewer than 512 bytes is neither
\* consumed as a response nor raised as an error: nothing is stored,
\* nothing is re-sent, and the enclosing loop goes on with its next attempt
\* while its budget lasts; a read failing with another errno raises out of the
\* operation at once, after which the operation reads and writes nothing (only
\* the teardown's disconnect follows).
C8_ReadFailures == [][C8_NotReady /\ C8_Error]_vars

C8_Witness ==
    /\ lastRead.kind = "short"
    /\ pc = "size_read"
    /\ attempt = 14
    /\ num = 1
    /\ raised = NoExc

C9_State ==
    /\ lastWrite.op = "enable" =>
          /\ opReads <= 20
          /\ pc = "find" => (opReads = attempt /\ attempt < 20 /\ hw_id = NoHw)
    /\ lastWrite.op \in {"pair", "count", "size", "fetch", "disconnect"} =>
          /\ hw_id # NoHw
          /\ Len(lastWrite.hw) = 3
          /\ \A i \in 1..3 : lastWrite.hw[i] = hw_id[i]
    /\ hw_id # NoHw => pc # "find"

C9_Step ==
    /\ hw_id' # hw_id =>
          /\ hw_id = NoHw
          /\ pc = "find"
          /\ ReadStep
          /\ lastRead'.kind = "frame"
          /\ lastRead'.head = "disc"
          /\ hw_id' = <<lastRead'.b7, lastRead'.b6, lastRead'.b5>>
    /\ (pc = "find" /\ ReadStep) =>
          IF lastRead'.kind = "frame" /\ lastRead'.head = "disc"
          THEN hw_id' # NoHw /\ pc' = "pair_write"
          ELSE hw_id' = NoHw /\ pc' # "pair_write"

\* C9: discovery performs at most 20 reads and stops at the first 512-byte
\* frame beginning 04 42 20; the stored id is (frame[7], frame[6], frame[5]),
\* and every later pair, count, size, fetch-chunk and disconnect command
\* carries these three bytes in that order at offsets 5..7.
C9_HardwareId == []C9_State /\ [][C9_Step]_vars

C9_Witness ==
    /\ lastWrite.op = "fetch"
    /\ lastWrite.hw = <<1, 3, 2>>
    /\ hw_id = <<1, 3, 2>>
    /\ pc = "fetch_read"

C10_State ==
    /\ lastWrite.op = "pair" => (opWrites \in 1..10 /\ opReads <= 5)
    /\ pc \in {"pair_write", "pair_read"} =>
          /\ ~paired
          /\ attempt < 10
          /\ opWrites = (IF pc = "pair_read" THEN attempt + 1 ELSE attempt)
          /\ pc = "pair_read" => (opReads = rattempt /\ rattempt < 5)
    /\ raised = Exc("SyncError", "pair") => (opWrites = 10 /\ ~paired)
    /\ paired => raised.at \notin {"connect", "find", "pair"}

C10_Step ==
    /\ (pc = "pair_read" /\ ReadStep) =>
          IF lastRead'.kind = "frame"
          THEN /\ paired' <=> lastRead'.b7 = 1
               /\ pc' # "pair_read"
               /\ (~paired' /\ attempt + 1 < 10) => pc' = "pair_write"
               /\ (~paired' /\ attempt + 1 = 10) =>
                     raised' = Exc("SyncError", "pair")
          ELSE ~paired'
    /\ (paired' /\ ~paired) => (pc = "pair_read" /\ ReadStep)
    /\ paired =>
          /\ paired'
          /\ pc' \notin {"pair_write", "pair_read"}
          /\ lastWrite'.op = "pair" => (lastWrite' = lastWrite /\ opWrites' = opWrites)
    /\ (raised' = Exc("SyncError", "pair") /\ raised = NoExc) =>
          (pc = "pair_read" /\ opWrites = 10 /\ ReadStep)

\* C10: pairing writes at most 10 pair requests and reads at most 5 times after
\* each; it succeeds exactly when the first 512-byte frame read after some
\* request has byte[7] = 1, writes no pair request after a success, and
\* otherwise fails after the 10th request.
C10_Pairing == []C10_State /\ [][C10_Step]_vars

C10_Witness ==
    /\ paired
    /\ lastWrite.op = "pair"
    /\ opWrites = 10
    /\ opReads = 5
    /\ lastRead.head = "pair"

\* ============================================================ _read_session
\* _read_session(number, size) run alone, for every size of RsSizes.  One step
\* is one iteration of the loop over the packets: the request is written and
\* the read loop either gets a ready frame, which is appended, or uses up its
\* _GET_SESSION_ATTEMPTS reads, and None is returned.
RsSizes == (0..MaxSize) \cup ((MaxSessionSize - MaxTop)..MaxSessionSize)

\* self.hw_id and number of the call
RsHw == <<1, 3, 2>>
RsNumber == 0

RsInit ==
    /\ rs_pc = "loop"
    /\ rs_size \in RsSizes
    /\ rs_packet = 0
    /\ rs_session = 0
    /\ rs_cmd = NoCmd
    /\ rs_writes = 0
    /\ rs_sum = 0

\* One iteration of "for packet in range(packets_count)"
RsRequest ==
    /\ rs_pc = "loop"
    /\ rs_packet < PacketsCount(rs_size)
    /\ LET packet_size == _SESSION_PACKET_WITHOUT_HEADER
           bytes_received == rs_packet * packet_size
           bytes_to_read == BytesToRead(rs_size, rs_packet)
       IN  /\ rs_cmd' = _assemble_packet_request_data(
                            RsHw, RsNumber, bytes_received, bytes_to_read)
           /\ rs_writes' = rs_writes + 1
           /\ rs_sum' = rs_sum + bytes_to_read
    /\ \E ready \in BOOLEAN :
         IF ready
         THEN /\ rs_session' = rs_session + 1
              /\ rs_packet' = rs_packet + 1
              /\ UNCHANGED rs_pc
         ELSE /\ rs_pc' = "failed"
              /\ UNCHANGED <<rs_session, rs_packet>>
    /\ UNCHANGED <<rs_size, vars, tcvars, ts>>

\* The loop over the packets is done: return session
RsReturn ==
    /\ rs_pc = "loop"
    /\ rs_packet = PacketsCount(rs_size)
    /\ rs_pc' = "done"
    /\ UNCHANGED <<rs_size, rs_packet, rs_session, rs_cmd, rs_writes, rs_sum,
                   vars, tcvars, ts>>

InitReadSession ==
    /\ DriverInit
    /\ RsInit
    /\ TcOff
    /\ TsOff

NextReadSession ==
    \/ RsRequest
    \/ RsReturn

SpecReadSession == InitReadSession /\ [][NextReadSession]_<<vars, others>>

\* ceil(s / 446), from its definition
CeilPackets(s) ==
    CHOOSE n \in 0..(s \div 446 + 1) : 446 * n >= s /\ 446 * (n - 1) < s

\* bytes_to_read of a fetch-chunk command, from its two length bytes
LengthOf(c) == c.len_hi * 256 + c.len_lo

\* C11: for every size s in 1..65535, _read_session writes exactly
\* ceil(s / 446) fetch-chunk requests when it returns a session; request k
\* (0-based) carries offset 446 * k and length 446, the final one s mod 446
\* when that is not zero; the lengths sum to s; each offset and length is
\* carried as two bytes lo, hi with lo + 256 * hi equal to it.
C11_ChunkRequests ==
    (rs_pc # "off" /\ rs_size \in 1..65535) =>
       LET total == CeilPackets(rs_size)
           k == rs_writes - 1
           final == k + 1 = total /\ rs_size % 446 # 0
       IN  /\ rs_writes <= total
           /\ rs_writes > 0 =>
                /\ rs_cmd.op = "fetch"
                /\ {rs_cmd.off_lo, rs_cmd.off_hi, rs_cmd.len_lo,
                     rs_cmd.len_hi} \subseteq 0..255
                /\ OffsetOf(rs_cmd) = 446 * k
                /\ LengthOf(rs_cmd) = IF final THEN rs_size % 446 ELSE 446
           /\ rs_pc = "done" =>
                /\ rs_writes = total
                /\ rs_session = total
                /\ rs_sum = rs_size

\* The largest size was read whole: 147 requests, the last one for the 419
\* bytes at offset 65116.
C11_Witness ==
    /\ rs_pc = "done"
    /\ rs_size = 65535
    /\ rs_writes = 147
    /\ rs_cmd.off_lo = 92 /\ rs_cmd.off_hi = 254
    /\ rs_cmd.len_lo = 163 /\ rs_cmd.len_hi = 1

\* ============================================================ _read_retry
\* The request of the operation at position p, its response triplet and its
\* read budget.
RetryRequest(p) ==
    IF p \in {"count_read", "count_resend"} THEN CountCmd(hw_id)
    ELSE SizeCmd(hw_id, num)

RetryHead(p) == IF p \in {"count_read", "count_resend"} THEN "count" ELSE "size"

RetryBudget(p) ==
    IF p \in {"count_read", "count_resend"} THEN 20 ELSE 15

RetryResend(p) == IF p = "count_read" THEN "count_resend" ELSE "size_resend"

RetryPcs == {"count_read", "count_resend", "size_read", "size_resend"}

C12_State ==
    /\ pc \in RetryPcs =>
         /\ lastWrite = RetryRequest(pc)
         /\ opReads <= RetryBudget(pc)
         /\ opWrites <= 1 + opReads
         /\ opWrites <= 1 + RetryBudget(pc)
    /\ pc \in {"count_resend", "size_resend"} =>
         /\ lastRead.kind = "frame"
         /\ lastRead.head # RetryHead(pc)
    /\ raised.at = "count" => opWrites <= 1 + 20
    /\ raised.at = "size" => opWrites <= 1 + 15

\* A read of _count_sessions or _read_session_size
C12_Read ==
    (ReadStep /\ pc \in {"count_read", "size_read"}) =>
       /\ (lastRead'.kind = "frame" /\ lastRead'.head # RetryHead(pc)) =>
              /\ pc' = RetryResend(pc)
              /\ UNCHANGED <<opWrites, lastWrite, session_count, session_sizes>>
       /\ lastRead'.kind = "short" =>
              /\ pc' \notin {"count_resend", "size_resend"}
              /\ UNCHANGED <<opWrites, lastWrite, session_count, session_sizes>>
       /\ (lastRead'.kind = "frame" /\ lastRead'.head = RetryHead(pc)) =>
              /\ UNCHANGED <<opWrites, lastWrite>>
              /\ IF pc = "count_read"
                 THEN /\ session_count' = lastRead'.b13
                      /\ pc' \in {"size_write", "exit"}
                 ELSE /\ session_sizes' =
                            Append(session_sizes,
                                   lastRead'.b8 * 256 + lastRead'.b7)
                      /\ \/ pc' = "size_write" /\ num' = num + 1
                         \/ pc' \in {"fetch_write", "exit"}

\* The step of the driver that follows a frame that did not match
C12_Resend ==
    (pc \in {"count_resend", "size_resend"} /\ pc' # pc) =>
       /\ lastWrite' = RetryRequest(pc)
       /\ opWrites' = opWrites + 1
       /\ opReads' = opReads
       /\ pc' \in {"count_read", "size_read", "exit"}

\* C12: in _count_sessions (20 reads) and _read_session_size (15 reads) each
\* 512-byte frame that does not begin with the expected triplet is followed
\* by exactly one re-send of the same request, an empty or short read by
\* none, and the first matching frame ends the operation with its value
\* (byte[13], resp. (byte[8] << 8) + byte[7]); the request is written at
\* most 1 + budget times.
C12_ReadRetry == []C12_State /\ [][C12_Read /\ C12_Resend]_vars

\* Every one of the 20 reads of _count_sessions gave a frame that did not
\* match: the request was written 21 times.
C12_Witness ==
    /\ raised = Exc("SyncError", "count")
    /\ opReads = 20
    /\ opWrites = 21

\* ============================================================ two's complement
\* int_to_twos_complement(val, length) followed by twos_complement_to_int on
\* its result with the same length, for every length of 1..MaxWidth and every
\* val that length bits can hold.
TcInit ==
    /\ tc_pc = "encode"
    /\ tc_len \in 1..MaxWidth
    /\ tc_val \in (-Pow2(tc_len - 1))..(Pow2(tc_len - 1) - 1)
    /\ tc_bits = <<>>
    /\ tc_int = 0

TcEncode ==
    /\ tc_pc = "encode"
    /\ tc_bits' = int_to_twos_complement(tc_val, tc_len)
    /\ tc_pc' = "decode"
    /\ UNCHANGED <<tc_val, tc_len, tc_int, vars, rsvars, ts>>

TcDecode ==
    /\ tc_pc = "decode"
    /\ tc_int' = twos_complement_to_int(tc_bits, tc_len)
    /\ tc_pc' = "done"
    /\ UNCHANGED <<tc_val, tc_len, tc_bits, vars, rsvars, ts>>

InitTwos ==
    /\ DriverInit
    /\ RsOff
    /\ TcInit
    /\ TsOff

NextTwos ==
    \/ TcEncode
    \/ TcDecode

SpecTwos == InitTwos /\ [][NextTwos]_<<vars, others>>

\* C13 as stated: for every width n and every v with
\* -2^(n-1) <= v < 2^(n-1),
\* twos_complement_to_int(int_to_twos_complement(v, n), n) = v.
C13_RoundTrip == tc_pc = "done" => tc_int = tc_val

\* C13: the encoding of v has n digits; decoding it gives v when v < 0, and
\* v - 2^n when v >= 0 (twos_complement_to_int takes every string as the
\* representation of a negative number).
C13_RoundTripNegative ==
    /\ tc_pc \in {"decode", "done"} =>
         /\ Len(tc_bits) = tc_len
         /\ int2(tc_bits) = IF tc_val < 0 THEN tc_val + Pow2(tc_len)
                            ELSE tc_val
    /\ tc_pc = "done" =>
         tc_int = IF tc_val < 0 THEN tc_val ELSE tc_val - Pow2(tc_len)

\* -3 in 4 bits is 1101 and is decoded as -3; 5 in 4 bits is decoded as -11.
C13_Witness ==
    /\ tc_pc = "done"
    /\ tc_len = 4
    /\ \/ tc_val = -3 /\ tc_bits = <<1, 1, 0, 1>> /\ tc_int = -3
       \/ tc_val = 5 /\ tc_bits = <<0, 1, 0, 1>> /\ tc_int = -11

\* ============================================================ parser.py
\* TrainingSession.parse_samples.  A TrainingSession object is a record: its
\* attributes has_hr, has_gps, samples, distance, max_speed, _samples_bits
\* (bits), _cursor, _zero_delta_counter (zdc) and _prefixless_zero_sat (pz);
\* pc is the place of parse_samples ("new": not called yet), hr, lon, lat are
\* its locals and exc is the exception that left it.
\* A coordinate is held in units of 1/600000 degree, in which
\* int_part + frac * COORD_COEFF / 10^9 is the integer 600000 * int_part +
\* frac (the rounding to 9 decimals is left out); a speed is held in metres
\* per minute, distance * 60 / sample_rate.
_LAP_DATA_BITS_LENGTH == 416
CoordUnit == 600000

\* None, and a value that is not None
None == <<>>
Some(v) == <<v>>

\* SampleFields
Fields == {"hr", "lon", "lat", "distance", "speed", "sat"}

\* Sample(hr, lon, lat, distance, speed), the defaults being None
Sample(hr, lon, lat, distance, speed) ==
    [hr |-> hr, lon |-> lon, lat |-> lat, distance |-> distance,
     speed |-> speed]

\* self._next_bits(length)
_next_bits(t, length) == Slice(t.bits, t.cursor, t.cursor + length)

\* self._samples_bits[self._cursor + a : self._cursor + b]
BitsAt(t, a, b) == Slice(t.bits, t.cursor + a, t.cursor + b)

\* self._cursor += n
Advance(t, n) == [t EXCEPT !.cursor = @ + n]

\* an exception of type e leaves the method
Throw(t, e) == [t EXCEPT !.exc = e]

\* _is_frozen with one zero delta taken as enough
_is_frozen_at_one(t, field) == t.zdc[field] >= 1

\* self._is_frozen(field)
_is_frozen(t, field) == t.zdc[field] >= 2

\* The channel's latest two events, ev added: "zero" and "nonzero" are the
\* deltas handed to the counter, "full" is an accepted full value,
\* "prefixless" a 7-bit satellites value accepted while frozen without the
\* prefix 001.
Latest(h, ev) == IF Len(h) < 2 THEN Append(h, ev) ELSE <<h[2], ev>>

\* The record of what the channel saw: seen keeps every event, marked leaves
\* the prefixless values out.
Saw(t, field, ev) ==
    [t EXCEPT !.seen[field] = Latest(@, ev),
              !.marked[field] = IF ev = "prefixless" THEN @
                                ELSE Latest(@, ev)]

\* self._reset_zero_delta_counter(field)
_reset_zero_delta_counter(t, field) == [t EXCEPT !.zdc[field] = 0]

\* self._handle_delta(field, delta)
_handle_delta(t, field, delta) ==
    IF delta = 0 THEN [t EXCEPT !.zdc[field] = @ + 1]
    ELSE [t EXCEPT !.zdc[field] = 0]

\* The event a delta is
DeltaEvent(delta) == IF delta = 0 THEN "zero" ELSE "nonzero"

\* self._prev_sample()
_prev_sample(t) == t.samples[Len(t.samples)]

\* HRType(input_val[0:2]), by the member's name; the string is no member when
\* it has fewer than two digits
HRType(b) ==
    CASE b = <<0, 1>> -> "FULL_WITH_PREFIX"
      [] b = <<0, 0>> -> "FULL_PREFIXLESS"
      [] b = <<1, 0>> -> "POS_DELTA"
      [] b = <<1, 1>> -> "NEG_DELTA"
      [] OTHER -> "ValueError"

\* '{:<04s}'.format(val)
PadRight4(val) == val \o Zeroes(Max(4 - Len(val), 0))

\* _process_hr_bits with a prefixless full value of 9 bits
_process_hr_bits_short(t, input_val) ==
    LET val_type == HRType(Slice(input_val, 0, 2))
        is_full == val_type \in {"FULL_WITH_PREFIX", "FULL_PREFIXLESS"}
        type_offset == CASE val_type = "FULL_WITH_PREFIX" -> 3
                         [] val_type = "FULL_PREFIXLESS" -> 0
                         [] OTHER -> 2
        end == IF val_type = "FULL_WITH_PREFIX" THEN 11
               ELSE IF val_type = "FULL_PREFIXLESS" THEN 9 ELSE 6
        val == PadRight4(Slice(input_val, type_offset, end))
    IN  IF val_type = "ValueError"
        THEN [exc |-> "ValueError", val |-> 0, val_type |-> "None", end |-> 0]
        ELSE IF _is_frozen(t, "hr") /\ val_type # "FULL_WITH_PREFIX"
        THEN [exc |-> "none", val |-> 0, val_type |-> "None", end |-> 1]
        ELSE [exc |-> "none",
              val |-> IF val_type = "NEG_DELTA"
                      THEN twos_complement_to_int(val, 4) ELSE int2(val),
              val_type |-> val_type, end |-> end]

\* self._process_hr_bits(input_val): (val, val_type, end), or the exception
_process_hr_bits(t, input_val) ==
    LET val_type == HRType(Slice(input_val, 0, 2))
        type_offset == CASE val_type = "FULL_WITH_PREFIX" -> 3
                         [] val_type = "FULL_PREFIXLESS" -> 0
                         [] OTHER -> 2
        end == IF val_type \in {"FULL_WITH_PREFIX", "FULL_PREFIXLESS"}
               THEN 11 ELSE 6
        val == PadRight4(Slice(input_val, type_offset, end))
    IN  IF val_type = "ValueError"
        THEN [exc |-> "ValueError", val |-> 0, val_type |-> "None", end |-> 0]
        ELSE IF _is_frozen(t, "hr") /\ val_type # "FULL_WITH_PREFIX"
        THEN [exc |-> "none", val |-> 0, val_type |-> "None", end |-> 1]
        ELSE [exc |-> "none",
              val |-> IF val_type = "NEG_DELTA"
                      THEN twos_complement_to_int(val, 4) ELSE int2(val),
              val_type |-> val_type, end |-> end]

\* self._parse_hr(): the object after it, its result in the local hr
_parse_hr(t) ==
    LET r == _process_hr_bits(t, _next_bits(t, 11))
        is_full == r.val_type \in {"FULL_WITH_PREFIX", "FULL_PREFIXLESS"}
        counted == IF is_full
                   THEN Saw(_reset_zero_delta_counter(t, "hr"), "hr", "full")
                   ELSE Saw(_handle_delta(t, "hr", r.val), "hr",
                            DeltaEvent(r.val))
        prev == _prev_sample(t).hr
    IN  IF r.exc # "none" THEN Throw(t, r.exc)
        ELSE IF ~is_full /\ prev = None THEN Throw(counted, "TypeError")
        ELSE [Advance(counted, r.end) EXCEPT
                 !.hr = IF is_full THEN Some(r.val)
                        ELSE Some(prev[1] + r.val)]

\* _parse_speed with the full value looked for only when not frozen
_parse_speed_unfrozen_only(t) ==
    LET frozen == _is_frozen(t, "speed")
        speed == IF frozen THEN 0 ELSE int2(_next_bits(t, 7))
        is_full == ~frozen /\ _next_bits(t, 7) = <<1, 0, 0, 0, 0, 0, 0>>
        offset == IF is_full THEN 16 ELSE IF frozen THEN 0 ELSE 7
        counted == IF is_full
                   THEN Saw(_reset_zero_delta_counter(t, "speed"), "speed",
                            "full")
                   ELSE Saw(_handle_delta(t, "speed", speed), "speed",
                            DeltaEvent(speed))
    IN  IF _next_bits(t, 7) = <<>> THEN Throw(t, "ValueError")
        ELSE IF is_full /\ BitsAt(t, 7, 16) = <<>> THEN Throw(t, "ValueError")
        ELSE Advance(counted, offset)

\* self._parse_speed(): 7 bits of delta, none when frozen, 16 of a full value
_parse_speed(t) ==
    LET frozen == _is_frozen(t, "speed")
        speed == IF frozen THEN 0 ELSE int2(_next_bits(t, 7))
        is_full == _next_bits(t, 7) = <<1, 0, 0, 0, 0, 0, 0>>
        offset == IF is_full THEN 16 ELSE IF frozen THEN 0 ELSE 7
        counted == IF is_full
                   THEN Saw(_reset_zero_delta_counter(t, "speed"), "speed",
                            "full")
                   ELSE Saw(_handle_delta(t, "speed", speed), "speed",
                            DeltaEvent(speed))
    IN  IF _next_bits(t, 7) = <<>> THEN Throw(t, "ValueError")
        ELSE IF is_full /\ BitsAt(t, 7, 16) = <<>> THEN Throw(t, "ValueError")
        ELSE Advance(counted, offset)

\* _parse_distance with the full value looked for only when not frozen
_parse_distance_unfrozen_only(t) ==
    LET frozen == _is_frozen(t, "distance")
        dist == IF frozen THEN 0 ELSE int2(_next_bits(t, 7))
        is_full == ~frozen /\ _next_bits(t, 8) = <<1, 0, 0, 0, 0, 0, 0, 0>>
        offset == IF is_full THEN 29 ELSE IF frozen THEN 0 ELSE 7
        counted == IF is_full
                   THEN Saw(_reset_zero_delta_counter(t, "distance"),
                            "distance", "full")
                   ELSE Saw(_handle_delta(t, "distance", dist), "distance",
                            DeltaEvent(dist))
    IN  IF _next_bits(t, 7) = <<>> THEN Throw(t, "ValueError")
        ELSE IF is_full /\ BitsAt(t, 8, 29) = <<>> THEN Throw(t, "ValueError")
        ELSE Advance(counted, offset)

\* self._parse_distance(): 7 bits of delta, none when frozen, 29 of a full
\* value
_parse_distance(t) ==
    LET frozen == _is_frozen(t, "distance")
        dist == IF frozen THEN 0 ELSE int2(_next_bits(t, 7))
        is_full == _next_bits(t, 8) = <<1, 0, 0, 0, 0, 0, 0, 0>>
        offset == IF is_full THEN 29 ELSE IF frozen THEN 0 ELSE 7
        counted == IF is_full
                   THEN Saw(_reset_zero_delta_counter(t, "distance"),
                            "distance", "full")
                   ELSE Saw(_handle_delta(t, "distance", dist), "distance",
                            DeltaEvent(dist))
    IN  IF _next_bits(t, 7) = <<>> THEN Throw(t, "ValueError")
        ELSE IF is_full /\ BitsAt(t, 8, 29) = <<>> THEN Throw(t, "ValueError")
        ELSE Advance(counted, offset)

\* int(x) of a coordinate x: its whole degrees, rounded towards zero
IntPart(x) ==
    IF x >= 0 THEN x \div CoordUnit ELSE -((-x) \div CoordUnit)

\* _format_coord with the fraction left out
_format_coord_whole(coord_int, coord_frac) == int2(coord_int) * CoordUnit

\* self._format_coord(coord_int, coord_frac), both strings non-empty
_format_coord(coord_int, coord_frac) ==
    int2(coord_int) * CoordUnit + int2(coord_frac)

\* self._format_coord_delta(val), val non-empty: a string with a leading 1
\* goes through twos_complement_to_unsigned(val, 12), whose result bin(-n)
\* int(.., 2) reads back as -n
_format_coord_delta(val) ==
    IF val[1] = 1 THEN twos_complement_to_int(val, 12) ELSE int2(val)

\* self._parse_coord(coord_name): the object after it, the coordinate in
\* the local of that name
_parse_coord(t, coord_name) ==
    LET raw_value == _next_bits(t, 12)
        prev == _prev_sample(t)[coord_name]
        frozen == _is_frozen(t, coord_name)
        coord_int == BitsAt(t, 0, 8)
        coord_frac == BitsAt(t, 8, 28)
        full_value == _format_coord(coord_int, coord_frac)
        is_full == frozen /\ IntPart(full_value) = IntPart(prev[1])
        value == IF is_full THEN full_value
                 ELSE IF frozen THEN 0 ELSE _format_coord_delta(raw_value)
        offset == IF is_full THEN 28 ELSE IF frozen THEN 0 ELSE 12
        counted == IF is_full
                   THEN Saw(_reset_zero_delta_counter(t, coord_name),
                            coord_name, "full")
                   ELSE Saw(_handle_delta(t, coord_name, int2(raw_value)),
                            coord_name, DeltaEvent(int2(raw_value)))
    IN  IF raw_value = <<>> THEN Throw(t, "ValueError")
        ELSE IF prev = None THEN Throw(t, "TypeError")
        ELSE IF frozen /\ (coord_int = <<>> \/ coord_frac = <<>>)
        THEN Throw(t, "ValueError")
        ELSE [Advance(counted, offset) EXCEPT
                 ![coord_name] = IF is_full THEN Some(value)
                                 ELSE Some(prev[1] + value)]

\* re.match of '.{250,290}' lon '.{24}' lat at the start of the string w
LapMatch(w, lon, lat) ==
    \E p \in 250..290 :
       /\ Len(w) >= p + Len(lon) + 24 + Len(lat)
       /\ SubSeq(w, p + 1, p + Len(lon)) = lon
       /\ SubSeq(w, p + Len(lon) + 25, p + Len(lon) + 24 + Len(lat)) = lat

\* self._has_lap_data(); get_bin of a negative number has a sign, which no
\* bit of the stream matches
_has_lap_data(t) ==
    LET prev == _prev_sample(t)
        lon == IntPart(prev.lon[1])
        lat == IntPart(prev.lat[1])
    IN  /\ lon >= 0
        /\ lat >= 0
        /\ LapMatch(_next_bits(t, _LAP_DATA_BITS_LENGTH), get_bin(lon, 8),
                    get_bin(lat, 8))

\* _parse_satellites reading 4 bits of delta whatever the bits and the state
_parse_satellites_delta_only(t) ==
    LET sat == _next_bits(t, 4)
        t3 == _handle_delta(t, "sat", int2(sat))
        t4 == Saw(t3, "sat", DeltaEvent(int2(sat)))
    IN  IF _next_bits(t, 7) = <<>> THEN Throw(t, "ValueError")
        ELSE [Advance(t4, 4) EXCEPT !.pz = FALSE]

\* self._parse_satellites(): 4 bits of delta, 7 of a full value, or none
_parse_satellites(t) ==
    LET sat == _next_bits(t, 4)
        prefixless_value == int2(_next_bits(t, 7))
        prefix == Slice(sat, 0, 3) = <<0, 0, 1>>
        frozen == _is_frozen(t, "sat")
        offset1 == IF t.pz /\ prefix THEN 7 ELSE 4
        offset2 == IF frozen
                   THEN (IF prefixless_value > 31 THEN 0 ELSE 7)
                   ELSE offset1
        t2 == IF frozen /\ prefix THEN _reset_zero_delta_counter(t, "sat")
              ELSE t
        pz == prefixless_value = 0
        offset == IF pz THEN 7 ELSE offset2
        is_delta == offset = 4
        t3 == IF is_delta THEN _handle_delta(t2, "sat", int2(sat))
              ELSE IF ~_is_frozen(t2, "sat")
              THEN _reset_zero_delta_counter(t2, "sat")
              ELSE t2
        t4 == IF is_delta THEN Saw(t3, "sat", DeltaEvent(int2(sat)))
              ELSE IF offset = 7
              THEN Saw(t3, "sat",
                       IF frozen /\ ~prefix THEN "prefixless" ELSE "full")
              ELSE t3
    IN  IF _next_bits(t, 7) = <<>> THEN Throw(t, "ValueError")
        ELSE [Advance(t4, offset) EXCEPT !.pz = pz]

\* geopy.distance.distance(coord1, coord2).meters, taken as the sum of the
\* two differences: zero for equal points, positive otherwise
_calculate_distance(lat1, lon1, lat2, lon2) ==
    Abs(lat2 - lat1) + Abs(lon2 - lon1)

\* "except Exception" with only ValueError caught
CaughtValueError(e) == e = "ValueError"

\* "except Exception" catches e: every exception the decoding raises, those
\* of the timezone libraries ("LibraryError") too, derives from Exception
Caught(e) ==
    e \in {"ValueError", "TypeError", "UnboundLocalError", "LibraryError"}

\* parse_samples is left by the exception e raised inside its try block
Leave(t, e) ==
    [t EXCEPT !.pc = "raised",
              !.exc = IF Caught(e) THEN "ParserError" ELSE e,
              !.cause = e]

\* The outcome of one step of parse_samples: t is the object after the
\* methods called, pc the place that follows when none of them raised.
StepResult(t, to) ==
    IF t.exc # "none" THEN Leave([t EXCEPT !.exc = "none"], t.exc)
    ELSE [t EXCEPT !.pc = to]

\* self._parse_first_coords(data): <<lon, lat>>, or <<>> for the ValueError
\* of an empty part
_parse_first_coords(data) ==
    LET lat_end == Len(data)
        lon_end == lat_end \div 2
        lon_int == Slice(data, 0, 8)
        lon_frac == Slice(data, 8, lon_end)
        lat_int == Slice(data, lon_end, lon_end + 8)
        lat_frac == Slice(data, lon_end + 8, lat_end)
    IN  IF <<>> \in {lon_int, lon_frac, lat_int, lat_frac} THEN <<>>
        ELSE <<_format_coord(lon_int, lon_frac),
               _format_coord(lat_int, lat_frac)>>

\* _parse_first_sample with hr = None where the session has no HR channel
_parse_first_sample_hr_none(t) ==
    LET t1 == IF t.has_gps THEN [t EXCEPT !.cursor = 22] ELSE t
        r == _process_hr_bits(t1, Slice(t1.bits, t1.cursor, Len(t1.bits)))
        t2 == IF t.has_hr THEN Advance(t1, r.end) ELSE t1
        hr == IF t.has_hr THEN Some(r.val) ELSE None
        t3 == Advance(t2, 45)
        coords == _parse_first_coords(BitsAt(t3, 0, 56))
        t4 == Advance(t3, 56 + 7 + 23)
    IN  IF t.has_hr /\ r.exc # "none" THEN Throw(t1, r.exc)
        ELSE IF ~t.has_gps
        THEN [t2 EXCEPT !.samples = <<Sample(hr, None, None, None, None)>>]
        ELSE IF coords = <<>> THEN Throw(t3, "ValueError")
        ELSE IF ~t.tz_ok THEN Throw(t3, "LibraryError")
        ELSE [t4 EXCEPT !.samples = <<Sample(hr, Some(coords[1]),
                                             Some(coords[2]), Some(0),
                                             Some(0))>>]

\* self.samples = [self._parse_first_sample()]; tz_ok: timezone_by_coords
\* and _set_start_utctime (timezonefinder, pytz) raise nothing for the
\* coordinates and the start time of this session
_parse_first_sample(t) ==
    LET t1 == IF t.has_gps THEN [t EXCEPT !.cursor = 22] ELSE t
        r == _process_hr_bits(t1, Slice(t1.bits, t1.cursor, Len(t1.bits)))
        t2 == IF t.has_hr THEN Advance(t1, r.end) ELSE t1
        hr == IF t.has_hr THEN Some(r.val) ELSE None
        t3 == Advance(t2, 45)
        coords == _parse_first_coords(BitsAt(t3, 0, 56))
        t4 == Advance(t3, 56 + 7 + 23)
    IN  IF t.has_hr /\ r.exc # "none" THEN Throw(t1, r.exc)
        ELSE IF ~t.has_gps
        THEN IF t.has_hr
             THEN [t2 EXCEPT !.samples = <<Sample(hr, None, None, None, None)>>]
             ELSE Throw(t2, "UnboundLocalError")
        ELSE IF coords = <<>> THEN Throw(t3, "ValueError")
        ELSE IF ~t.tz_ok THEN Throw(t3, "LibraryError")
        ELSE [t4 EXCEPT !.samples = <<Sample(hr, Some(coords[1]),
                                             Some(coords[2]), Some(0),
                                             Some(0))>>]

\* if speed > self.max_speed: self.max_speed = speed
RunningMax(max_speed, speed) ==
    IF speed > max_speed THEN speed ELSE max_speed

\* Sample(hr) of a session without GPS, with a distance and a speed of 0
HrSampleZero(hr) == Sample(hr, None, None, Some(0), Some(0))

\* Sample(hr) of a session without GPS
HrSample(hr) == Sample(hr, None, None, None, None)

\* LoopStep with the loop running while any bit is left
LoopStepAnyBits(t) ==
    IF ~(t.cursor < Len(t.bits) /\ Len(_next_bits(t, 7)) > 0)
    THEN [t EXCEPT !.pc = "done"]
    ELSE LET t1 == IF t.has_hr THEN _parse_hr(t) ELSE [t EXCEPT !.hr = None]
         IN  IF t1.exc # "none" THEN StepResult(t1, "loop")
             ELSE IF ~t.has_gps
             THEN StepResult([t1 EXCEPT
                                 !.samples = Append(@, HrSample(t1.hr))],
                             "loop")
             ELSE StepResult(t1, "speed")

\* The while condition, and one iteration as far as its first reading of the
\* GPS fields: hr, and the whole iteration of a session without GPS
LoopStep(t) ==
    IF ~(t.cursor < Len(t.bits) /\ Len(_next_bits(t, 7)) > 5)
    THEN [t EXCEPT !.pc = "done"]
    ELSE LET t1 == IF t.has_hr THEN _parse_hr(t) ELSE [t EXCEPT !.hr = None]
         IN  IF t1.exc # "none" THEN StepResult(t1, "loop")
             ELSE IF ~t.has_gps
             THEN StepResult([t1 EXCEPT
                                 !.samples = Append(@, HrSample(t1.hr))],
                             "loop")
             ELSE StepResult(t1, "speed")

\* SatStep with no satellites read in an iteration that has lap data
SatStepLapOnly(t) ==
    LET lap == _has_lap_data(t)
        t1 == IF ~lap THEN _parse_satellites(t)
              ELSE Advance(t, _LAP_DATA_BITS_LENGTH)
        t2 == Advance(t1, 10)
        prev == _prev_sample(t)
        distance == _calculate_distance(prev.lat[1], prev.lon[1],
                                        t.lat[1], t.lon[1])
        speed == (distance * 60) \div t.rate
    IN  IF t1.exc # "none" THEN StepResult(t1, "loop")
        ELSE StepResult(
                 [t2 EXCEPT !.distance = @ + distance,
                            !.max_speed = RunningMax(@, speed),
                            !.samples = Append(@, Sample(t.hr, t.lon, t.lat,
                                                         Some(distance),
                                                         Some(speed)))],
                 "loop")

\* The rest of an iteration after the coordinates: the lap data, the
\* satellites, the 10 undefined bits, the distance and the new sample
SatStep(t) ==
    LET lap == _has_lap_data(t)
        sat_after_lap == _next_bits(t, 9) = Zeroes(9)
        before == _parse_satellites(t)
        t1 == IF ~lap THEN before
              ELSE IF sat_after_lap
              THEN _parse_satellites(Advance(t, _LAP_DATA_BITS_LENGTH))
              ELSE IF before.exc # "none" THEN before
              ELSE Advance(before, _LAP_DATA_BITS_LENGTH)
        t2 == Advance(t1, 10)
        prev == _prev_sample(t)
        distance == _calculate_distance(prev.lat[1], prev.lon[1],
                                        t.lat[1], t.lon[1])
        speed == (distance * 60) \div t.rate
    IN  IF t1.exc # "none" THEN StepResult(t1, "loop")
        ELSE StepResult(
                 [t2 EXCEPT !.distance = @ + distance,
                            !.max_speed = RunningMax(@, speed),
                            !.samples = Append(@, Sample(t.hr, t.lon, t.lat,
                                                         Some(distance),
                                                         Some(speed)))],
                 "loop")

\* TrainingSession(raw_session), as far as parse_samples uses the object
TrainingSession(has_hr, has_gps, rate, bits, tz_ok) ==
    [pc |-> "new", runs |-> 0, has_hr |-> has_hr, has_gps |-> has_gps,
     rate |-> rate, tz_ok |-> tz_ok, bits |-> bits, cursor |-> 0,
     zdc |-> [f \in Fields |-> 0], pz |-> FALSE,
     samples |-> <<>>, distance |-> 0, max_speed |-> 0,
     hr |-> None, lon |-> None, lat |-> None,
     exc |-> "none", cause |-> "none",
     seen |-> [f \in Fields |-> <<>>], marked |-> [f \in Fields |-> <<>>]]

\* Put with _zero_delta_counter an attribute of the class: the step of
\* object i writes the counters of every object
PutSharedCounters(tsx, i, t) ==
    [j \in Inst |->
        IF j = i THEN t
        ELSE IF tsx[j].pc = "off" THEN tsx[j]
        ELSE [tsx[j] EXCEPT !.zdc = t.zdc]]

\* The step of object i leaves every object but i as it is
Put(tsx, i, t) == [tsx EXCEPT ![i] = t]

\* parse_samples runs from its call to its end: no other object is inside it
Idle3(i) ==
    \A j \in Inst \ {i} : ts[j].pc \in {"off", "new", "done", "raised"}

\* parse_samples is called on the object: its locals are new, the attributes
\* are what the constructor or an earlier call left
Call(t) ==
    [t EXCEPT !.runs = @ + 1, !.exc = "none", !.cause = "none",
              !.hr = None, !.lon = None, !.lat = None]

\* The call of parse_samples, on a new object or on one decoded before (a
\* TCXConverter is made for the same session again), and its first sample
ParseFirst(i) ==
    /\ \/ ts[i].pc = "new"
       \/ ts[i].pc \in {"done", "raised"} /\ ts[i].runs < MaxRuns
    /\ Idle3(i)
    /\ ts' = Put(ts, i, StepResult(_parse_first_sample(Call(ts[i])), "loop"))
    /\ UNCHANGED <<vars, rsvars, tcvars>>

ParseLoop(i) ==
    /\ ts[i].pc = "loop"
    /\ ts' = Put(ts, i, LoopStep(ts[i]))
    /\ UNCHANGED <<vars, rsvars, tcvars>>

ParseSpeed(i) ==
    /\ ts[i].pc = "speed"
    /\ ts' = Put(ts, i, StepResult(_parse_speed(ts[i]), "distance"))
    /\ UNCHANGED <<vars, rsvars, tcvars>>

ParseDistance(i) ==
    /\ ts[i].pc = "distance"
    /\ ts' = Put(ts, i, StepResult(_parse_distance(ts[i]), "lon"))
    /\ UNCHANGED <<vars, rsvars, tcvars>>

ParseLon(i) ==
    /\ ts[i].pc = "lon"
    /\ ts' = Put(ts, i, StepResult(_parse_coord(ts[i], "lon"), "lat"))
    /\ UNCHANGED <<vars, rsvars, tcvars>>

ParseLat(i) ==
    /\ ts[i].pc = "lat"
    /\ ts' = Put(ts, i, StepResult(_parse_coord(ts[i], "lat"), "sat"))
    /\ UNCHANGED <<vars, rsvars, tcvars>>

ParseSat(i) ==
    /\ ts[i].pc = "sat"
    /\ ts' = Put(ts, i, SatStep(ts[i]))
    /\ UNCHANGED <<vars, rsvars, tcvars>>

\* ------------------------------------------------------------ bitstreams
\* The sessions decoded: _samples_bits is the first sample followed by a
\* sequence of ticks, each the bits of one of a few fields or whole ticks as
\* the watch writes them.  The decoder reads them in the state it is in, so a
\* tick written for a frozen channel may be read by one that is not.
RECURSIVE Flatten(_)
Flatten(q) == IF q = <<>> THEN <<>> ELSE Head(q) \o Flatten(Tail(q))

\* The sequences of at most n members of T
TokenSeqs(T, n) == UNION {[1..k -> T] : k \in 0..n}

\* info['sample_rate'] of the sessions: (1, 2, 5, 15, 60)[2]
SampleRate == 5

\* 011 and the 8 bits of a full heart rate
HrFull(v) == <<0, 1, 1>> \o get_bin(v, 8)

\* The heart rate fields: the full values 148 (011 10010100) and 5 (11 bits,
\* no prefix), the deltas +2, +0 and -2, the one bit of a frozen channel
HrTokens ==
    {HrFull(148), get_bin(5, 11), <<1, 0>> \o get_bin(2, 4),
     <<1, 0>> \o get_bin(0, 4), <<1, 1>> \o get_bin(14, 4), <<1>>}

\* The first sample of a session without GPS: 142
HrFirst == HrFull(142)

\* The telemetry of a session without GPS with at most n fields after the
\* first sample
HrStreams(n) ==
    {HrFirst \o Flatten(q) : q \in TokenSeqs(HrTokens, n)}

\* The 10 undefined bits that end a tick
Und(b) == <<0, 1, 0, 1, 1, 1, 1, 1, 1, b>>

\* speed, distance, longitude and latitude deltas that are not zero
MoveFields ==
    get_bin(3, 7) \o get_bin(15, 7) \o get_bin(105, 12) \o get_bin(4058, 12)

\* 416 bits of lap data for a position at 2 degrees east, 1 degree north,
\* the first bit being b
LapBlock(b, lead) ==
    <<b>> \o Ones(lead - 1) \o get_bin(2, 8) \o Ones(24) \o get_bin(1, 8)
        \o Ones(_LAP_DATA_BITS_LENGTH - lead - 40)

\* The ticks of a session with GPS, without the heart rate: the watch moves;
\* it stands still; every channel is frozen; every channel has a full
\* value; the satellites are a prefixless zero; lap data follows the
\* satellites; lap data (beginning with 9 zero bits) precedes them.
MoveTick == MoveFields \o get_bin(1, 4) \o Und(0)
StillTick == Zeroes(7) \o Zeroes(7) \o Zeroes(12) \o Zeroes(12)
                 \o Zeroes(4) \o Und(1)
FrozenTick == Und(1)
FullTick ==
    <<1, 0, 0, 0, 0, 0, 0>> \o get_bin(20, 9)
        \o <<1, 0, 0, 0, 0, 0, 0, 0>> \o get_bin(1195, 21)
        \o get_bin(2, 8) \o get_bin(1200, 20)
        \o get_bin(1, 8) \o get_bin(2200, 20)
        \o <<0, 0, 1>> \o get_bin(7, 4) \o Und(1)
PzTick == MoveFields \o Zeroes(7) \o Und(1)
LapTick == MoveFields \o get_bin(1, 4) \o LapBlock(1, 250) \o Und(0)
LapFirstTick ==
    MoveFields \o Zeroes(9) \o Ones(241) \o get_bin(2, 8) \o Ones(24)
        \o get_bin(1, 8) \o Ones(_LAP_DATA_BITS_LENGTH - 290)
        \o get_bin(1, 4) \o Und(0)

\* The ticks of a session with GPS and no heart rate, and of one with both
GpsTicks(has_hr) ==
    IF has_hr THEN {MoveTick, StillTick, FrozenTick, FullTick}
    ELSE {MoveTick, StillTick, FrozenTick, FullTick, PzTick, LapTick,
          LapFirstTick}

\* The first sample of a session with GPS: 22 bits, the heart rate, 45 bits,
\* longitude 2 + 1000/600000 and latitude 1 + 2000/600000, 7 and 23 bits
GpsFirst(has_hr) ==
    Zeroes(22) \o (IF has_hr THEN HrFirst ELSE <<>>) \o Zeroes(45)
        \o get_bin(2, 8) \o get_bin(1000, 20)
        \o get_bin(1, 8) \o get_bin(2000, 20)
        \o Zeroes(7) \o Zeroes(23)

\* The telemetry of a session with GPS with at most n ticks after the first
\* sample; each tick of a session with a heart rate begins with the delta +2
GpsStreams(has_hr, n) ==
    {GpsFirst(has_hr)
        \o Flatten([k \in 1..Len(q) |->
                       (IF has_hr THEN <<1, 0>> \o get_bin(2, 4) ELSE <<>>)
                           \o q[k]]) :
        q \in TokenSeqs(GpsTicks(has_hr), n)}

\* The example in _parse_hr: 142, then +2, +0, +0, the bit of a frozen
\* channel, and the full value 148
HrExample ==
    HrFirst \o <<1, 0>> \o get_bin(2, 4) \o <<1, 0>> \o get_bin(0, 4)
        \o <<1, 0>> \o get_bin(0, 4) \o <<1>> \o HrFull(148)

\* A tick read while every channel is frozen: no speed, no distance, a
\* longitude of 1 degree and a fraction of 2^20 - 1 units (more than one
\* degree), a latitude of 1 degree and 2200 units, 7 satellites
CarryTick ==
    get_bin(1, 8) \o Ones(20) \o get_bin(1, 8) \o get_bin(2200, 20)
        \o <<0, 0, 1>> \o get_bin(7, 4) \o Und(1)

\* A tick whose satellites are a prefixless zero and whose 10 undefined
\* bits are zero
ZeroPzTick == MoveFields \o Zeroes(7) \o Zeroes(10)

\* A tick of a watch that moves whose satellites are the full value 3 with
\* the prefix 001
PrefixTick == MoveFields \o <<0, 0, 1>> \o get_bin(3, 4) \o Und(1)

\* Sessions with GPS and no heart rate decoded besides those of GpsStreams
GpsExamples ==
    {GpsFirst(FALSE) \o StillTick \o StillTick \o CarryTick,
     GpsFirst(FALSE) \o StillTick \o StillTick \o CarryTick \o MoveTick,
     GpsFirst(FALSE) \o StillTick \o ZeroPzTick,
     GpsFirst(FALSE) \o StillTick \o ZeroPzTick \o MoveTick,
     GpsFirst(FALSE) \o MoveFields \o Zeroes(5),
     GpsFirst(FALSE) \o PzTick \o PrefixTick,
     GpsFirst(FALSE) \o PrefixTick \o MoveTick}

\* 142 and then a negative delta, for each of the 16 patterns of its 4 bits
NegDeltaStreams ==
    {HrFirst \o <<1, 1>> \o get_bin(v, 4) : v \in 0..15}

\* A session with GPS and a heart rate whose first HR field is the value 142
\* in 11 bits without prefix, and whose two ticks have the HR delta +0
GpsHrExamples ==
    {Zeroes(22) \o get_bin(142, 11)
        \o SubSeq(GpsFirst(FALSE), 23, Len(GpsFirst(FALSE)))
        \o <<1, 0>> \o get_bin(0, 4) \o MoveTick
        \o <<1, 0>> \o get_bin(0, 4) \o MoveTick}

\* The telemetry given to a session whose header has neither channel: no
\* bit, that of a session without GPS and that of a session with GPS
NoChannelStreams == HrStreams(1) \cup {<<>>, GpsFirst(FALSE) \o MoveTick}

\* The sessions decoded, of at most hr_ticks fields without GPS and
\* gps_ticks ticks with it
Sessions(hr_ticks, gps_ticks) ==
    {TrainingSession(TRUE, FALSE, SampleRate, b, TRUE) :
        b \in HrStreams(hr_ticks) \cup {HrExample} \cup NegDeltaStreams}
        \cup {TrainingSession(FALSE, TRUE, SampleRate, b, z) :
                  b \in GpsStreams(FALSE, gps_ticks) \cup GpsExamples,
                  z \in BOOLEAN}
        \cup {TrainingSession(TRUE, TRUE, SampleRate, b, z) :
                  b \in GpsStreams(TRUE, gps_ticks) \cup GpsHrExamples,
                  z \in BOOLEAN}
        \cup {TrainingSession(FALSE, FALSE, SampleRate, b, TRUE) :
                  b \in NoChannelStreams}

\* One TrainingSession object
TsInit ==
    \E s \in Sessions(MaxHrTicks, MaxGpsTicks) :
       ts = [i \in Inst |-> IF i = 1 THEN s ELSE [pc |-> "off"]]

InitParser ==
    /\ DriverInit
    /\ RsOff
    /\ TcOff
    /\ TsInit

NextParser ==
    \/ ParseFirst(1)
    \/ ParseLoop(1)
    \/ ParseSpeed(1)
    \/ ParseDistance(1)
    \/ ParseLon(1)
    \/ ParseLat(1)
    \/ ParseSat(1)

SpecParser == InitParser /\ [][NextParser]_<<vars, others>>

\* ------------------------------------------------------ freezing (C14)
\* The latest event of a history, "" when there is none
LastOf(h) == IF h = <<>> THEN "" ELSE h[Len(h)]

C15_CursorNeverDecreases ==
    [][ts[1].pc # "off" =>
          /\ ts'[1].cursor >= ts[1].cursor
          /\ (ts[1].pc \in {"loop", "sat"}
                 /\ Len(ts'[1].samples) = Len(ts[1].samples) + 1)
                => ts'[1].cursor > ts[1].cursor]_ts

\* ------------------------------------------- distance and speed (C16)
\* The sum of the samples' distances and the largest of their speeds, a
\* sample without GPS adding nothing
RECURSIVE SumDistance(_)
SumDistance(q) ==
    IF q = <<>> THEN 0
    ELSE (IF Head(q).distance = None THEN 0 ELSE Head(q).distance[1])
             + SumDistance(Tail(q))

RECURSIVE MaxSpeed(_)
MaxSpeed(q) ==
    IF q = <<>> THEN 0
    ELSE Max(IF Head(q).speed = None THEN 0 ELSE Head(q).speed[1],
             MaxSpeed(Tail(q)))

\* C16: at every step of the decode loop and after parse_samples, max_speed
\* is the largest speed of the samples and the session's distance is the sum
\* of the samples' distances.
C16_MaxSpeedAndDistance ==
    ts[1].pc \notin {"off", "new"} =>
       /\ ts[1].max_speed = MaxSpeed(ts[1].samples)
       /\ ts[1].distance = SumDistance(ts[1].samples)

\* ------------------------------------------------ sample fields (C17)
\* C17: in a session with GPS every sample after the first has a longitude,
\* a latitude, a distance and a speed; in a session without GPS every sample
\* has a heart rate and no longitude, latitude, distance or speed.
C17_SampleFields ==
    ts[1].pc \notin {"off", "new"} =>
       \A k \in 1..Len(ts[1].samples) :
          LET sample == ts[1].samples[k]
          IN  IF ts[1].has_gps
              THEN k > 1 =>
                      /\ sample.lon # None
                      /\ sample.lat # None
                      /\ sample.distance # None
                      /\ sample.speed # None
              ELSE /\ sample.hr # None
                   /\ sample.lon = None
                   /\ sample.lat = None
                   /\ sample.distance = None
                   /\ sample.speed = None

\* A session with GPS and heart rate is decoded to three samples or more
C17_Witness ==
    /\ ts[1].pc = "done"
    /\ ts[1].has_gps
    /\ ts[1].has_hr
    /\ Len(ts[1].samples) >= 3
    /\ \A k \in 1..Len(ts[1].samples) :
          ts[1].samples[k].hr # None /\ ts[1].samples[k].lon # None

\* ---------------------------------------------------- exceptions (C19)
\* C19: whichever exception is raised while parse_samples decodes (a field
\* that has run out of bits, a value that is None, a failing library call),
\* the exception that leaves parse_samples is ParserError.
C19_OnlyParserError ==
    ts[1].pc = "raised" =>
       /\ ts[1].cause # "none"
       /\ ts[1].exc = "ParserError"

\* The telemetry ends inside a tick: a field of the loop finds no bits, its
\* ValueError leaves parse_samples as ParserError, the samples decoded so
\* far being kept
C19_Witness ==
    /\ ts[1].pc = "raised"
    /\ ts[1].runs = 1
    /\ ts[1].cause = "ValueError"
    /\ ts[1].exc = "ParserError"
    /\ ts[1].cursor >= Len(ts[1].bits)
    /\ Len(ts[1].samples) >= 2

\* ---------------------------------------------------- heart rate (C20)
\* The heart rate of the latest sample
PrevHr(t) == _prev_sample(t).hr[1]

\* The value of the digits v of a full heart rate: as a binary number, and
\* when padded is set with fewer than 4 digits taken as followed by zeros
FullHr(v, padded) ==
    IF padded /\ Len(v) < 4 THEN int2(v) * Pow2(4 - Len(v)) ELSE int2(v)

\* What an iteration of the loop that reads the HR field does to the cursor,
\* the heart rate and the counter
HrFieldStep(padded) ==
    (/\ ts[1].pc = "loop"
     /\ ts[1].has_hr
     /\ ts'[1].pc \in {"loop", "speed"})
    => LET t == ts[1]
           u == ts'[1]
           prefix == BitsAt(t, 0, 2)
       IN  IF prefix = <<0, 1>>
           THEN /\ u.cursor = t.cursor + 11
                /\ u.hr = Some(FullHr(BitsAt(t, 3, 11), padded))
                /\ u.zdc["hr"] = 0
           ELSE IF _is_frozen(t, "hr")
           THEN /\ u.cursor = t.cursor + 1
                /\ u.hr = Some(PrevHr(t))
                /\ _is_frozen(u, "hr")
           ELSE IF prefix = <<0, 0>>
           THEN /\ u.cursor = t.cursor + 11
                /\ u.hr = Some(FullHr(BitsAt(t, 0, 11), padded))
                /\ u.zdc["hr"] = 0
           ELSE IF prefix = <<1, 0>>
           THEN /\ u.cursor = t.cursor + 6
                /\ u.hr = Some(PrevHr(t) + int2(BitsAt(t, 2, 6)))
           ELSE /\ u.cursor = t.cursor + 6
                /\ u.hr = Some(PrevHr(t) + int2(BitsAt(t, 2, 6)) - 16)

\* C20 as stated: an iteration of the loop that reads the HR field of a
\* channel that is not frozen moves the cursor by 11 bits when the field
\* begins with 01 or 00 and by 6 when it begins with 10 or 11; the value is
\* the bits after the 3-bit prefix, the 11 bits themselves, the previous HR
\* plus the 4 bits after 10, or the previous HR plus the 4 bits after 11
\* less 16, and a full value leaves the counter at 0.  When the channel is
\* frozen a field beginning with 01 is read as a full value in the same way,
\* and any other moves the cursor by 1 bit, gives the previous HR and leaves
\* the channel frozen.
C20_HrFieldAsStated == [][HrFieldStep(FALSE)]_ts

\* C20: as stated, except that a full value with the prefix 01 of which
\* fewer than 4 value bits are left in the telemetry is those bits followed
\* by zeros up to 4 digits.
C20_HrField == [][HrFieldStep(TRUE)]_ts

\* After 142 and two deltas +0 the channel is frozen: one bit is read as the
\* same heart rate, and the full value 148 that follows clears the counter
C20_Witness ==
    /\ ts[1].pc = "loop"
    /\ ts[1].runs = 1
    /\ ~ts[1].has_gps
    /\ Len(ts[1].samples) = 5
    /\ ts[1].samples[4].hr = Some(142)
    /\ ts[1].samples[5].hr = Some(148)
    /\ ts[1].cursor = 11 + 6 + 6 + 1 + 11
    /\ ts[1].seen["hr"] = <<"zero", "full">>
    /\ ts[1].zdc["hr"] = 0

\* ------------------------------------------------ several sessions (C18)
\* The sessions of which several objects are built: with GPS, standing still
\* until frozen and then moving, and moving throughout; with the heart rate
\* only, frozen and then a full value, and never frozen; with both.
TwinSessions ==
    {TrainingSession(FALSE, TRUE, SampleRate,
                     GpsFirst(FALSE) \o StillTick \o StillTick \o MoveTick,
                     TRUE),
     TrainingSession(FALSE, TRUE, SampleRate,
                     GpsFirst(FALSE) \o MoveTick \o MoveTick, TRUE),
     TrainingSession(TRUE, FALSE, SampleRate,
                     HrFirst \o <<1, 0>> \o get_bin(0, 4)
                         \o <<1, 0>> \o get_bin(0, 4) \o <<1>>
                         \o HrFull(148), TRUE),
     TrainingSession(TRUE, FALSE, SampleRate,
                     HrFirst \o <<1, 0>> \o get_bin(2, 4)
                         \o <<1, 1>> \o get_bin(14, 4), TRUE),
     TrainingSession(TRUE, TRUE, SampleRate,
                     GpsFirst(TRUE) \o <<1, 0>> \o get_bin(0, 4) \o MoveTick
                         \o <<1, 0>> \o get_bin(0, 4) \o MoveTick, TRUE)}

\* parse_raw_sessions: one TrainingSession per raw session; the raw sessions
\* of objects 1 and 2 are equal, that of object 3 is any
TsTwins ==
    \E s \in TwinSessions, other \in TwinSessions :
       ts = [i \in Inst |-> IF i = 3 THEN other ELSE s]

InitSessions ==
    /\ DriverInit
    /\ RsOff
    /\ TcOff
    /\ TsTwins

\* The objects are decoded one at a time, in any order
NextSessions ==
    \E i \in Inst :
       \/ ParseFirst(i)
       \/ ParseLoop(i)
       \/ ParseSpeed(i)
       \/ ParseDistance(i)
       \/ ParseLon(i)
       \/ ParseLat(i)
       \/ ParseSat(i)

SpecSessions == InitSessions /\ [][NextSessions]_<<vars, others>>

\* parse_samples has returned or raised, and is not running
Left(t) == t.pc \in {"done", "raised"}

HrSeries(q) == [k \in 1..Len(q) |-> IF q[k].hr = None THEN 0 ELSE q[k].hr[1]]

\* The sequence q has the contiguous run r
HasRun(q, r) ==
    \E i \in 0..(Len(q) - Len(r)) : SubSeq(q, i + 1, i + Len(r)) = r

\* The session of the example has been decoded
HrExampleDecoded ==
    /\ ts[1].bits = HrExample
    /\ ts[1].has_hr
    /\ ~ts[1].has_gps
    /\ ts[1].pc \in {"done", "raised"}

\* C21 as stated: the session without GPS whose telemetry is 142, 10 0010,
\* 10 0000, 10 0000, 1, 011 10010100 is decoded to heart rates that contain
\* the run 142, 144, 144, 144, 148.
C21_HrExampleAsStated ==
    HrExampleDecoded
       => HasRun(HrSeries(ts[1].samples), <<142, 144, 144, 144, 148>>)

\* C21: that session is decoded to the heart rates 142, 144, 144, 144, 144,
\* 148, each of the five bit groups giving one sample, the bit of the frozen
\* channel too.
C21_HrExample ==
    HrExampleDecoded
       => HrSeries(ts[1].samples) = <<142, 144, 144, 144, 144, 148>>

\* The example is decoded to its end: 41 bits, six samples, the channel not
\* frozen after the full value
C21_Witness ==
    /\ ts[1].bits = HrExample
    /\ ts[1].has_hr /\ ~ts[1].has_gps
    /\ ts[1].pc = "done"
    /\ ts[1].runs = 1
    /\ ts[1].cursor = 41
    /\ Len(ts[1].samples) = 6
    /\ ts[1].samples[5].hr = Some(144)
    /\ ts[1].samples[6].hr = Some(148)
    /\ ~_is_frozen(ts[1], "hr")
\* ------------------------------------------- the negative delta (C22)
\* The 4 bits v as a number in two's complement: the first bit weighs -8
StandardTwos4(v) == IF v[1] = 1 THEN int2(v) - 16 ELSE int2(v)

\* The 4 bits v as the low bits of a negative number: the number less 16
NegativeTwos4(v) == int2(v) - 16

\* What an iteration of the loop does that reads an HR field with the prefix
\* 11 on a channel that is not frozen: the heart rate is the previous one
\* plus the delta, which is standard or always negative
NegDeltaStep(standard) ==
    (/\ ts[1].pc = "loop"
     /\ ts[1].has_hr
     /\ ~_is_frozen(ts[1], "hr")
     /\ BitsAt(ts[1], 0, 2) = <<1, 1>>
     /\ ts'[1].pc \in {"loop", "speed"})
    => LET v == BitsAt(ts[1], 2, 6)
           delta == IF standard THEN StandardTwos4(v) ELSE NegativeTwos4(v)
       IN  ts'[1].hr = Some(PrevHr(ts[1]) + delta)

\* C22 as stated: the delta of an HR field with the prefix 11 is its 4 value
\* bits read as a 4-bit two's complement number, for each of the 16
\* patterns.
C22_NegativeDeltaAsStated == [][NegDeltaStep(TRUE)]_ts

\* C22: the delta of an HR field with the prefix 11 is its 4 value bits less
\* 16, for each of the 16 patterns: the 4-bit two's complement number when
\* the first of the bits is 1, and that number less 16 when it is 0.
C22_NegativeDelta == [][NegDeltaStep(FALSE)]_ts

\* 142 and the field 11 0011 have been decoded: the delta is 3 - 16
C22_Witness ==
    /\ ts[1].bits = HrFirst \o <<1, 1, 0, 0, 1, 1>>
    /\ ts[1].has_hr /\ ~ts[1].has_gps
    /\ ts[1].pc = "done"
    /\ ts[1].runs = 1
    /\ HrSeries(ts[1].samples) = <<142, 129>>
\* -------------------------------------- speed and distance (C23, C24)
\* What reading the field f (speed or distance) does, the method being
\* entered at `from` and left without an exception at `to`: a field that
\* begins with the bits of `prefix` is a full value of `width` bits in all;
\* any other is none of the bits when the channel is frozen and 7 bits of
\* delta when it is not.
DeltaFieldStep(f, from, to, prefix, width) ==
    (/\ ts[1].pc = from
     /\ ts'[1].pc = to)
    => LET t == ts[1]
           u == ts'[1]
           delta == int2(_next_bits(t, 7))
       IN  IF _next_bits(t, Len(prefix)) = prefix
           THEN /\ u.cursor = t.cursor + width
                /\ u.zdc[f] = 0
                /\ ~_is_frozen(u, f)
           ELSE IF _is_frozen(t, f)
           THEN /\ u.cursor = t.cursor
                /\ _is_frozen(u, f)
           ELSE /\ u.cursor = t.cursor + 7
                /\ delta = 0 => u.zdc[f] = t.zdc[f] + 1
                /\ delta # 0 => u.zdc[f] = 0
                /\ _is_frozen(u, f)
                      <=> (delta = 0 /\ LastOf(t.seen[f]) = "zero")

\* C23: reading the speed moves the cursor by 16 bits and clears the counter
\* when the next 7 bits are 1000000, frozen or not; otherwise by no bit when
\* the channel is frozen, which it stays; otherwise by 7 bits, a delta of
\* zero adding one to the counter and any other clearing it, so that the
\* channel is frozen after the step exactly when the delta is the second
\* zero delta in a row.
C23_SpeedField ==
    [][DeltaFieldStep("speed", "speed", "distance",
                      <<1, 0, 0, 0, 0, 0, 0>>, 16)]_ts

\* The speed has been read three times: two zero deltas, then the full value
\* of 16 bits read while frozen
C23_Witness ==
    /\ ts[1].pc = "distance"
    /\ ts[1].runs = 1
    /\ ~ts[1].has_hr
    /\ ts[1].seen["speed"] = <<"zero", "full">>
    /\ ts[1].zdc["speed"] = 0
    /\ Len(ts[1].samples) = 3
    /\ ts[1].cursor = Len(GpsFirst(FALSE)) + 2 * Len(StillTick) + 16

\* C24: reading the distance moves the cursor by 29 bits and clears the
\* counter whenever the next 8 bits are 10000000, frozen or not; otherwise
\* by no bit when the channel is frozen and by 7 bits when it is not, a
\* delta of zero adding one to the counter and any other clearing it.
C24_DistanceField ==
    [][DeltaFieldStep("distance", "distance", "lon",
                      <<1, 0, 0, 0, 0, 0, 0, 0>>, 29)]_ts

\* The distance has been read three times: two zero deltas, then the full
\* value of 29 bits read while frozen
C24_Witness ==
    /\ ts[1].pc = "lon"
    /\ ts[1].runs = 1
    /\ ~ts[1].has_hr
    /\ ts[1].seen["distance"] = <<"zero", "full">>
    /\ ts[1].zdc["distance"] = 0
    /\ Len(ts[1].samples) = 3
    /\ ts[1].cursor = Len(GpsFirst(FALSE)) + 2 * Len(StillTick) + 16 + 29
\* ------------------------------------------------- coordinates (C25)
\* What reading the coordinate f does, the method being entered at `from`
\* and left without an exception at `to`.  The 28 bits read while frozen are
\* a full value when the whole degrees of the candidate are those of the
\* previous coordinate: the candidate's whole degrees are its first 8 bits
\* (eight), or those of the 8 bits and the 20 bits of fraction together.
CoordStep(f, from, to, eight) ==
    (/\ ts[1].pc = from
     /\ ts'[1].pc = to)
    => LET t == ts[1]
           u == ts'[1]
           prev == _prev_sample(t)[f][1]
           candidate == int2(BitsAt(t, 0, 8)) * CoordUnit
                            + int2(BitsAt(t, 8, 28))
           whole == IF eight THEN int2(BitsAt(t, 0, 8))
                    ELSE IntPart(candidate)
       IN  IF ~_is_frozen(t, f)
           THEN u.cursor = t.cursor + 12
           ELSE IF whole = IntPart(prev)
           THEN /\ u.cursor = t.cursor + 28
                /\ u[f] = Some(candidate)
                /\ ~_is_frozen(u, f)
           ELSE /\ u.cursor = t.cursor
                /\ u[f] = Some(prev)

\* C25 as stated: a frozen coordinate channel takes the next 8 + 20 bits as
\* a full value exactly when the number of the 8 bits is the whole degrees
\* of the previous coordinate; then the cursor moves by 28 bits and the
\* channel is no longer frozen; otherwise the cursor stays and the
\* coordinate is the previous one.  A channel that is not frozen reads 12
\* bits.
C25_CoordFieldAsStated ==
    [][/\ CoordStep("lon", "lon", "lat", TRUE)
       /\ CoordStep("lat", "lat", "sat", TRUE)]_ts

\* C25: as stated, the whole degrees compared being those of the candidate
\* value, the 8 bits plus the 20 bits of fraction in units of 1/600000
\* degree, which is one more than the number of the 8 bits when the fraction
\* is 600000 or more.
C25_CoordField ==
    [][/\ CoordStep("lon", "lon", "lat", FALSE)
       /\ CoordStep("lat", "lat", "sat", FALSE)]_ts

\* The frozen longitude, 2 degrees and 1000 units before, has taken the 28
\* bits 00000001 and twenty ones as its full value
C25_Witness ==
    /\ ts[1].pc = "lat"
    /\ ts[1].runs = 1
    /\ ts[1].bits = GpsFirst(FALSE) \o StillTick \o StillTick \o CarryTick
    /\ ts[1].cursor = Len(GpsFirst(FALSE)) + 2 * Len(StillTick) + 28
    /\ ts[1].lon = Some(CoordUnit + 1048575)
    /\ ts[1].seen["lon"] = <<"zero", "full">>
    /\ ~_is_frozen(ts[1], "lon")
\* ------------------------------------------ frozen coordinates (C26)
\* The step reads the coordinate f and takes 28 bits as its full value
AcceptsFull(f) ==
    /\ ts[1].pc = f
    /\ ts'[1].pc = (IF f = "lon" THEN "lat" ELSE "sat")
    /\ ts'[1].cursor = ts[1].cursor + 28

\* C26: a frozen longitude or latitude stays frozen in every step, and the
\* step that reads it moves the cursor by no bit, but for the step that
\* accepts a full value, after which the channel is not frozen; a candidate
\* that is rejected leaves the channel frozen.
C26_CoordStaysFrozen ==
    [][\A f \in {"lon", "lat"} :
          (ts[1].pc # "off" /\ _is_frozen(ts[1], f))
             => IF AcceptsFull(f) THEN ~_is_frozen(ts'[1], f)
                ELSE /\ _is_frozen(ts'[1], f)
                     /\ ts[1].pc = f => ts'[1].cursor = ts[1].cursor]_ts
\* -------------------------------------------------- satellites (C27)
\* The iteration at its satellites field detects lap data
SatLap(t) == _has_lap_data(t)

\* The cursor at which _parse_satellites is called in the iteration that is
\* at its satellites field: after the lap data when the lap data begin with
\* 9 zero bits, at the cursor otherwise
SatAt(t) ==
    IF SatLap(t) /\ _next_bits(t, 9) = Zeroes(9)
    THEN t.cursor + _LAP_DATA_BITS_LENGTH ELSE t.cursor

\* The next n bits at the satellites field
SatBits(t, n) == Slice(t.bits, SatAt(t), SatAt(t) + n)

\* The bits _parse_satellites consumed in the step from t to u, which ends
\* the iteration: what the cursor moved less the lap data and the 10
\* undefined bits
SatWidth(t, u) ==
    u.cursor - t.cursor - 10 - (IF SatLap(t) THEN _LAP_DATA_BITS_LENGTH ELSE 0)

\* The bits b, as many of the field as the telemetry still has, are zeros
ZeroBits(b) == b # <<>> /\ \A k \in 1..Len(b) : b[k] = 0

\* The step reads the satellites and ends the iteration without an exception
SatRead == ts[1].pc = "sat" /\ ts'[1].pc = "loop"

\* What reading satellites whose next n bits are zeros does: 7 bits, the
\* flag of the prefixless zero set, and the counter as it was (kept) or the
\* channel frozen or not as it was, the counter of a channel that is not
\* frozen being cleared; the flag is set after no other satellites
PrefixlessZeroStep(n, kept) ==
    SatRead
    => LET t == ts[1]
           u == ts'[1]
       IN  /\ ZeroBits(SatBits(t, n))
                => /\ SatWidth(t, u) = 7
                   /\ u.pz
                   /\ IF kept THEN u.zdc["sat"] = t.zdc["sat"]
                      ELSE /\ _is_frozen(u, "sat") <=> _is_frozen(t, "sat")
                           /\ u.zdc["sat"] =
                                  (IF _is_frozen(t, "sat") THEN t.zdc["sat"]
                                   ELSE 0)
           /\ u.pz => ZeroBits(SatBits(t, n))

\* C27 as stated: satellites whose next 9 bits are zero move the cursor by 7
\* bits, set the flag of the prefixless zero and leave the counter of the
\* satellites as it was; the flag is set only when those 9 bits are zero.
C27_PrefixlessZeroAsStated == [][PrefixlessZeroStep(9, TRUE)]_ts

\* C27: satellites whose next 7 bits are zero move the cursor by 7 bits, set
\* the flag of the prefixless zero and leave a frozen channel frozen, its
\* counter as it was, and a channel that is not frozen not frozen, its
\* counter cleared; the flag is set only when those 7 bits are zero.
C27_PrefixlessZero == [][PrefixlessZeroStep(7, FALSE)]_ts

\* After one zero delta the satellites 0000000, followed by 01, have been
\* read: the flag is set and the counter, 1 before, is 0
C27_Witness ==
    /\ ts[1].pc = "loop"
    /\ ts[1].runs = 1
    /\ ts[1].bits = GpsFirst(FALSE) \o StillTick \o PzTick
    /\ ts[1].cursor = Len(ts[1].bits)
    /\ ts[1].pz
    /\ ts[1].seen["sat"] = <<"zero", "full">>
    /\ ts[1].zdc["sat"] = 0
\* -------------------------------------------------- the prefix 001 (C28)
\* What reading satellites that begin with 001 does: 7 bits and the counter
\* cleared, in every state (always) or when the channel is frozen or the
\* satellites before were a prefixless zero; when neither, the 4 bits 0010
\* or 0011 are a delta, which clears the counter too
FullPrefixStep(always) ==
    SatRead
    => LET t == ts[1]
           u == ts'[1]
       IN  SatBits(t, 3) = <<0, 0, 1>>
              => /\ u.zdc["sat"] = 0
                 /\ SatWidth(t, u) =
                        (IF always \/ _is_frozen(t, "sat") \/ t.pz
                         THEN 7 ELSE 4)

\* C28 as stated: satellites that begin with 001 move the cursor by 7 bits
\* and clear the counter in every state, frozen or not, after a prefixless
\* zero or not.
C28_FullPrefixAsStated == [][FullPrefixStep(TRUE)]_ts

\* C28: satellites that begin with 001 move the cursor by 7 bits and clear
\* the counter when the channel is frozen or the satellites of the tick
\* before were a prefixless zero; in any other state they are 4 bits of a
\* delta of 2 or 3, which clears the counter.
C28_FullPrefix == [][FullPrefixStep(FALSE)]_ts

\* After a prefixless zero the satellites 001 0011 have been read as 7 bits
\* by a channel that is not frozen
C28_Witness ==
    /\ ts[1].pc = "loop"
    /\ ts[1].runs = 1
    /\ ts[1].bits = GpsFirst(FALSE) \o PzTick \o PrefixTick
    /\ ts[1].cursor = Len(ts[1].bits)
    /\ ~ts[1].pz
    /\ ts[1].seen["sat"] = <<"full", "full">>
    /\ ts[1].zdc["sat"] = 0
\* ------------------------------------------- frozen satellites (C29)
\* C29: when the satellites are frozen, a number of the next 7 bits of at
\* most 31 that does not begin with 001 moves the cursor by 7 bits and a
\* number above 31 by none, the channel staying frozen in both cases; a
\* frozen channel never reads 4 bits.
C29_FrozenSatellites ==
    [][(SatRead /\ _is_frozen(ts[1], "sat"))
       => LET t == ts[1]
              u == ts'[1]
              value == int2(SatBits(t, 7))
          IN  /\ (value <= 31 /\ SatBits(t, 3) # <<0, 0, 1>>)
                    => (SatWidth(t, u) = 7 /\ _is_frozen(u, "sat"))
              /\ value > 31
                    => (SatWidth(t, u) = 0 /\ _is_frozen(u, "sat"))
              /\ SatWidth(t, u) # 4]_ts

\* The frozen satellites have read a 7-bit value without prefix and are
\* still frozen
C29_Witness ==
    /\ ts[1].pc = "loop"
    /\ ts[1].runs = 1
    /\ ~ts[1].has_hr
    /\ LastOf(ts[1].seen["sat"]) = "prefixless"
    /\ ts[1].marked["sat"] = <<"zero", "zero">>
    /\ ts[1].zdc["sat"] >= 2
    /\ ~ts[1].pz
\* ------------------------------------------------- the lap data (C30)
\* The satellites of the object t read once, at the cursor c
SatOnce(t, c) == _parse_satellites([t EXCEPT !.cursor = c])

\* C30: the step that follows the coordinates moves the cursor by the width
\* of the satellites and 10 bits when no lap data are detected and by 416
\* bits more when they are, the width being 0, 4 or 7; the satellites are
\* read once in both cases: the width, the counter and the flag of the
\* prefixless zero are those of one reading, at the cursor or, when the lap
\* data begin with 9 zero bits, after the lap data.
C30_LapAndSatellites ==
    [][SatRead
       => LET t == ts[1]
              u == ts'[1]
              once == SatOnce(t, SatAt(t))
          IN  /\ SatWidth(t, u) \in {0, 4, 7}
              /\ SatWidth(t, u) = once.cursor - SatAt(t)
              /\ u.zdc = once.zdc
              /\ u.pz = once.pz
              /\ Len(u.samples) = Len(t.samples) + 1]_ts

\* A tick with lap data after its satellites has been decoded: 45 bits of
\* the fields, 4 of satellites, 416 of lap data and 10 undefined bits
C30_Witness ==
    /\ ts[1].pc = "loop"
    /\ ts[1].runs = 1
    /\ ts[1].bits = GpsFirst(FALSE) \o LapTick
    /\ ts[1].cursor = Len(GpsFirst(FALSE)) + 38 + 4 + 416 + 10
    /\ ts[1].cursor = Len(ts[1].bits)
    /\ Len(ts[1].samples) = 2
    /\ ts[1].seen["sat"] = <<"nonzero">>
\* ------------------------------------------------ the first sample (C31)
\* C31: the call that emits the first sample of a session with GPS leaves
\* one sample, of distance 0 and speed 0, and the cursor at 153 + w, w being
\* the 6 or 11 bits of the first HR field of a session with a heart rate and
\* 0 without one; no counter of zero deltas is changed.
C31_FirstSample ==
    [][(/\ ts[1].pc \in {"new", "done", "raised"}
        /\ ts'[1].pc = "loop"
        /\ ts[1].has_gps)
       => /\ Len(ts'[1].samples) = 1
          /\ ts'[1].samples[1].distance = Some(0)
          /\ ts'[1].samples[1].speed = Some(0)
          /\ ts'[1].cursor - 153
                 \in (IF ts[1].has_hr THEN {6, 11} ELSE {0})
          /\ ts'[1].zdc = ts[1].zdc]_ts
\* ------------------------------------------ the bits of a session (C32)
\* _PACKET_HEADER_LENGTH
_PACKET_HEADER_LENGTH == 7

\* The bytes tobin cuts from the end of every packet but the last
PacketTail == 59

\* The most bytes after the header in the last packet of a session
MaxBody == 4

\* next(i for i, v in enumerate(reversed(items)) if v != 0) finds nothing
NoNonZero(items) == \A k \in 1..Len(items) : items[k] = 0

\* pop_zeroes(items), items having a member that is not 0: index counts the
\* zeros at the end, and items[:-index] is items[:0] when index is 0
pop_zeroes(items) ==
    LET n == Len(items)
        index == CHOOSE i \in 0..(n - 1) :
                    /\ items[n - i] # 0
                    /\ \A j \in 0..(i - 1) : items[n - j] = 0
    IN  IF index = 0 THEN <<>> ELSE SubSeq(items, 1, n - index)

\* ''.join([utils.get_bin(byte, 8) for byte in packet])
RECURSIVE PacketBits(_)
PacketBits(pkt) ==
    IF pkt = <<>> THEN <<>>
    ELSE get_bin(Head(pkt), 8) \o PacketBits(Tail(pkt))

\* packet[start:]
From(pkt, start) == SubSeq(pkt, start + 1, Len(pkt))

\* pop_zeroes raises StopIteration in tobin(): the last packet, from its
\* start, has only zeros
tobin_raises(raw) ==
    LET index == Len(raw)
        start == IF index = 1 THEN 0 ELSE _PACKET_HEADER_LENGTH
    IN  NoNonZero(From(raw[index], start))

\* tobin() as far as the packet of this index (1-based), when pop_zeroes
\* does not raise
RECURSIVE tobin_upto(_, _)
tobin_upto(raw, index) ==
    IF index = 0 THEN <<>>
    ELSE LET start == IF index = 1 THEN 0 ELSE _PACKET_HEADER_LENGTH
             pkt == raw[index]
             is_last == index = Len(raw)
             before == tobin_upto(raw, index - 1)
         IN  IF is_last
             THEN before \o PacketBits(pop_zeroes(From(pkt, start)))
             ELSE before
                     \o PacketBits(SubSeq(pkt, start + 1,
                                          Len(pkt) - PacketTail))

\* self.tobin()
tobin(raw) == tobin_upto(raw, Len(raw))

\* The header of a packet, and the sessions read from the watch: one packet,
\* or a first packet of 3 bytes of data with 59 more and a last packet; the
\* last packet has at most n bytes, 0 or 1, after its header
Header == <<4, 66, 6, 0, 1, 0, 1>>
Bodies(n) == UNION {[1..k -> {0, 1}] : k \in 0..n}
RawSessions(n) ==
    {<<Header \o b>> : b \in Bodies(n)}
        \cup {<<Header \o <<1, 0, 1>> \o Zeroes(PacketTail), Header \o b>> :
                  b \in Bodies(n)}

\* A TrainingSession object of which tobin() is called
InitTobin ==
    /\ DriverInit
    /\ RsOff
    /\ TcOff
    /\ \E r \in RawSessions(MaxBody) :
          ts = [i \in Inst |->
                   IF i = 1 THEN [pc |-> "raw", raw |-> r, result |-> <<>>]
                   ELSE [pc |-> "off"]]

\* tobin() on object i
Tobin(i) ==
    /\ ts[i].pc = "raw"
    /\ ts' = [ts EXCEPT ![i] =
                 IF tobin_raises(ts[i].raw)
                 THEN [@ EXCEPT !.pc = "StopIteration"]
                 ELSE [@ EXCEPT !.pc = "bin", !.result = tobin(ts[i].raw)]]
    /\ UNCHANGED <<vars, rsvars, tcvars>>

NextTobin == Tobin(1)

SpecTobin == InitTobin /\ [][NextTobin]_<<vars, others>>

\* The bytes b without the zeros at their end
RECURSIVE StripZeroes(_)
StripZeroes(b) ==
    IF b = <<>> \/ b[Len(b)] # 0 THEN b
    ELSE StripZeroes(SubSeq(b, 1, Len(b) - 1))

\* The bytes of the last packet after its header
LastBody(raw) == From(raw[Len(raw)], _PACKET_HEADER_LENGTH)

\* The bits of the packets before the last
EarlierBits(raw) ==
    IF Len(raw) = 1 THEN <<>>
    ELSE PacketBits(SubSeq(raw[1], 1, Len(raw[1]) - PacketTail))

\* C32: tobin() ends with the bits of the session, to which the last packet
\* gives the bytes after its 7-byte header without the zeros at their end,
\* every other byte kept in order: all of them when the last byte is not 0;
\* and the bytes so stripped are stripped to themselves.
C32_LastPacketStripped ==
    ts[1].pc \in {"bin", "StopIteration"}
       => LET body == LastBody(ts[1].raw)
          IN  /\ ts[1].pc = "bin"
              /\ ts[1].result
                    = EarlierBits(ts[1].raw) \o PacketBits(StripZeroes(body))
              /\ ~NoNonZero(body)
                    => (/\ ~NoNonZero(pop_zeroes(body))
                        /\ pop_zeroes(pop_zeroes(body)) = pop_zeroes(body))
\* ---------------------------------------------------- two calls (C33)
\* C33: of two objects for the same session, one decoded by one call of
\* parse_samples and the other by two, the second call has ended as the
\* first did, with the same samples, the same total distance and the same
\* maximal speed, the distance being the sum of the samples' distances.
C33_SecondCallSame ==
    \A i, j \in {1, 2} :
       (/\ ts[i].pc = "done" /\ ts[i].runs = 1
        /\ ts[j].pc \in {"done", "raised"} /\ ts[j].runs = 2)
       => /\ ts[j].pc = "done"
          /\ ts[j].samples = ts[i].samples
          /\ ts[j].distance = ts[i].distance
          /\ ts[j].max_speed = ts[i].max_speed
          /\ ts[j].distance = SumDistance(ts[j].samples)
\* ------------------------------------------- stored packets (C34)
\* The step of _read_session stores the frame it read as the next packet of
\* session num: the loop goes on to the next packet, or the session, now
\* complete, is appended to the list
StoresPacket ==
    /\ pc = "fetch_read"
    /\ \/ packet' = packet + 1
       \/ /\ Len(sessions') > Len(sessions)
          /\ sessions'[Len(sessions) + 1] = Session(num, packet + 1)

\* C34: every frame stored as a packet of a session is the watch's answer
\* to the fetch-chunk request written last, the one for that packet; a
\* frame that answers nothing or an earlier command is never stored.
C34_StoredPacketAnswersRequest ==
    [][StoresPacket
       => /\ lastRead'.head = "data"
          /\ lastRead'.re = [op |-> "fetch", fresh |-> TRUE]]_vars

\* ---------------------------------------- pairing acknowledgement (C35)
\* C35: _pair reports success only in a step that read a pairing
\* acknowledgement, a frame beginning 04 42 03 whose byte 7 is 1; a frame of
\* another response type does not make the pairing succeed.
C35_PairedOnlyByAck ==
    [][(paired' /\ ~paired)
       => /\ pc = "pair_read"
          /\ lastRead'.head = "pair"
          /\ lastRead'.b7 = 1]_vars
\* -------------------------------------------------- termination (C36)
\* The steps of a call of parse_samples that is running: the interpreter
\* goes on with the statement that follows
CallSteps ==
    \/ ParseLoop(1)
    \/ ParseSpeed(1)
    \/ ParseDistance(1)
    \/ ParseLon(1)
    \/ ParseLat(1)
    \/ ParseSat(1)

\* parse_samples is inside its loop: the states in which CallSteps is
\* enabled, each of its steps being guarded by its pc alone and changing ts
InCall == ts[1].pc \in {"loop", "speed", "distance", "lon", "lat", "sat"}

\* The decoding of one session in which a call, once made, is run on: weak
\* fairness of CallSteps, WF_ts(CallSteps), written with InCall for
\* ENABLED <<CallSteps>>_ts
SpecParserLive ==
    SpecParser /\ ([]<>(~InCall) \/ []<><<CallSteps>>_ts)

\* parse_samples has returned or raised
CallEnded == ts[1].pc \in {"done", "raised"}

\* The step enters the body of the while loop
EntersBody ==
    /\ ts[1].pc = "loop"
    /\ \/ ts'[1].pc \in {"speed", "raised"}
       \/ Len(ts'[1].samples) = Len(ts[1].samples) + 1

\* The body of the loop is entered only with 6 bits or more at the cursor;
\* no step inside the loop moves the cursor back, the whole iteration of a
\* session without GPS moves it forward, and so does the step that ends the
\* iteration of a session with GPS, by the 10 undefined bits at least
C36_Step ==
    /\ EntersBody => Len(ts[1].bits) - ts[1].cursor >= 6
    /\ InCall => ts'[1].cursor >= ts[1].cursor
    /\ (EntersBody /\ ~ts[1].has_gps /\ ts'[1].pc = "loop")
          => ts'[1].cursor > ts[1].cursor
    /\ (ts[1].pc = "sat" /\ ts'[1].pc = "loop")
          => ts'[1].cursor >= ts[1].cursor + 10

\* C36: every call of parse_samples ends: the body of the loop runs only
\* while 6 bits or more are left at the cursor, every iteration moves the
\* cursor forward, and a call that is in its loop comes to return or to
\* raise, the exception raised being ParserError.
C36_Terminates ==
    /\ [][C36_Step]_ts
    /\ [](ts[1].pc = "raised" => ts[1].exc = "ParserError")
    /\ InCall ~> CallEnded

\* A session with GPS has been decoded to the end of its three ticks and
\* parse_samples has returned
C36_Witness ==
    /\ ts[1].pc = "done"
    /\ ts[1].runs = 1
    /\ ts[1].has_gps
    /\ ts[1].bits = GpsFirst(FALSE) \o MoveTick \o MoveTick \o MoveTick
    /\ Len(ts[1].samples) = 4
    /\ ts[1].cursor = Len(ts[1].bits)
\* ------------------------------------------- neither channel (C37)
\* C37: a session whose header has neither the HR nor the GPS channel is
\* never decoded: whatever its bits, every call of parse_samples on it has
\* raised ParserError, and the session has no sample.
C37_NoChannelFails ==
    (~ts[1].has_hr /\ ~ts[1].has_gps /\ ts[1].pc # "new")
       => /\ ts[1].pc = "raised"
          /\ ts[1].exc = "ParserError"
          /\ ts[1].samples = <<>>

\* parse_samples has raised on a session with neither channel whose bits
\* are those of a session with GPS
C37_Witness ==
    /\ ~ts[1].has_hr
    /\ ~ts[1].has_gps
    /\ ts[1].bits = GpsFirst(FALSE) \o MoveTick
    /\ ts[1].pc = "raised"
    /\ ts[1].cause = "UnboundLocalError"
    /\ ts[1].runs = 1
\* ------------------------------------------- empty sessions (C38)
\* The loop of sessions over session_sizes is past session k: it is reading a
\* later session, or sessions has returned its list
PastSession(k) ==
    \/ pc \in {"fetch_write", "fetch_read"} /\ num > k
    \/ pc \in {"exit", "closed"} /\ raised = NoExc

\* C38: for a session whose size the device gave as 0, no fetch-chunk
\* request is ever written and the reading is never counted as failed; once
\* the loop of sessions is past it, the list holds it as a session of no
\* packet.
C38_EmptySession ==
    \A k \in 0..(Len(session_sizes) - 1) :
       session_sizes[k + 1] = 0
          => /\ k \notin requested
             /\ k \notin failed
             /\ PastSession(k)
                   => \E j \in 1..Len(sessions) : sessions[j] = Session(k, 0)

\* sessions has returned an empty first session and a second one of one
\* packet
C38_Witness ==
    /\ pc = "closed"
    /\ raised = NoExc
    /\ session_sizes = <<0, 1>>
    /\ sessions = <<Session(0, 0), Session(1, 1)>>
    /\ requested = {1}
\* ------------------------------------- coordinate deltas (C39)
\* _format_coord_delta on the 12 bits of a coordinate field, for every
\* pattern the field can hold
CdInit ==
    /\ tc_pc = "raw"
    /\ tc_len = 12
    /\ tc_val \in 0..(Pow2(12) - 1)
    /\ tc_bits = get_bin(tc_val, 12)
    /\ tc_int = 0

CdDecode ==
    /\ tc_pc = "raw"
    /\ tc_int' = _format_coord_delta(tc_bits)
    /\ tc_pc' = "delta"
    /\ UNCHANGED <<tc_val, tc_len, tc_bits, vars, rsvars, ts>>

InitCoordDelta ==
    /\ DriverInit
    /\ RsOff
    /\ CdInit
    /\ TsOff

NextCoordDelta == CdDecode

SpecCoordDelta == InitCoordDelta /\ [][NextCoordDelta]_<<vars, others>>

\* C39: the delta decoded from the 12-bit pattern of the unsigned number v
\* is v when v < 2048 and v - 4096 otherwise.
C39_TwelveBitDelta ==
    tc_pc = "delta"
       => /\ Len(tc_bits) = 12
          /\ int2(tc_bits) = tc_val
          /\ tc_int = IF tc_val < 2048 THEN tc_val ELSE tc_val - 4096

\* The pattern 111111011010 has been decoded as -38
C39_Witness ==
    /\ tc_pc = "delta"
    /\ tc_bits = <<1, 1, 1, 1, 1, 1, 0, 1, 1, 0, 1, 0>>
    /\ tc_int = -38
====
